---- MODULE Spec2Model ----
(***************************************************************************)
(* State-machine model of the ACTS-Core steppers (EigenStepper, its older  *)
(* variant, StraightLineStepper, AtlasStepper), the GainMatrixUpdater and  *)
(* the KalmanFitter actor.                                                 *)
(*                                                                         *)
(* Doubles that take part in step-size control are modelled as signed      *)
(* powers of two with the IEEE special values zero, infinity and NaN, so   *)
(* that overflow, underflow and NaN comparisons behave as in the build.    *)
(* Positions and path lengths are integers in units of 2^-LinFrac mm.      *)
(***************************************************************************)
EXTENDS Integers, Sequences, FiniteSets, TLC

\* ------------------------------------------------------------------------
\* Bounds of the model
\* ------------------------------------------------------------------------

\* largest binary exponent of a finite double of the model
MaxExp ==
  128

\* number of fractional bits of a position / path length
LinFrac ==
  4

\* largest binary exponent of a step that is applied to the position
LinMaxExp ==
  4

\* number of stepper operations in one behaviour
MaxCalls ==
  2

\* number of steps of the propagation loop in one fit
MaxPropSteps ==
  4

\* ------------------------------------------------------------------------
\* Constants of the program
\* ------------------------------------------------------------------------

\* the retry counter value at which the adaptive step falls back to 1 mm
MaxStepAttempts ==
  100

\* ------------------------------------------------------------------------
\* double arithmetic on signed powers of two
\* ------------------------------------------------------------------------

MinExp == 0 - MaxExp

Zero == [k |-> "z", s |-> 1, e |-> 0]

NaN == [k |-> "n", s |-> 1, e |-> 0]

Inf(sg) == [k |-> "i", s |-> sg, e |-> 0]

\* sg * 2^ex, overflowing to infinity and underflowing to zero
Fin(sg, ex) ==
  IF ex > MaxExp THEN Inf(sg)
  ELSE IF ex < MinExp THEN Zero
  ELSE [k |-> "f", s |-> sg, e |-> ex]

IsNaN(a) == a.k = "n"

DNeg(a) == IF a.k \in {"z", "n"} THEN a ELSE [a EXCEPT !.s = 0 - a.s]

DAbs(a) == IF a.k \in {"z", "n"} THEN a ELSE [a EXCEPT !.s = 1]

DMul(a, b) ==
  IF IsNaN(a) \/ IsNaN(b) THEN NaN
  ELSE IF (a.k = "i" /\ b.k = "z") \/ (a.k = "z" /\ b.k = "i") THEN NaN
  ELSE IF a.k = "z" \/ b.k = "z" THEN Zero
  ELSE IF a.k = "i" \/ b.k = "i" THEN Inf(a.s * b.s)
  ELSE Fin(a.s * b.s, a.e + b.e)

DDiv(a, b) ==
  IF IsNaN(a) \/ IsNaN(b) THEN NaN
  ELSE IF (a.k = "z" /\ b.k = "z") \/ (a.k = "i" /\ b.k = "i") THEN NaN
  ELSE IF a.k = "z" \/ b.k = "i" THEN Zero
  ELSE IF b.k = "z" THEN Inf(a.s)
  ELSE IF a.k = "i" THEN Inf(a.s * b.s)
  ELSE Fin(a.s * b.s, a.e - b.e)

\* position of a non-NaN double on the number line
Rank(a) ==
  IF a.k = "z" THEN 0
  ELSE IF a.k = "i" THEN a.s * (MaxExp - MinExp + 2)
  ELSE a.s * (a.e - MinExp + 1)

\* operator< and operator<= of double: false when an operand is NaN
DLess(a, b) == ~IsNaN(a) /\ ~IsNaN(b) /\ Rank(a) < Rank(b)

DLeq(a, b) == ~IsNaN(a) /\ ~IsNaN(b) /\ Rank(a) <= Rank(b)

\* std::max(a, b) is (a < b) ? b : a and std::min(a, b) is (b < a) ? b : a
StdMax(a, b) == IF DLess(a, b) THEN b ELSE a

StdMin(a, b) == IF DLess(b, a) THEN b ELSE a

\* std::pow(a, 0.25) of a non-negative double, rounded down to a power of two
Pow025(a) ==
  IF a.k = "f" THEN Fin(1, a.e \div 4) ELSE a

RECURSIVE Pow2(_)
Pow2(n) == IF n <= 0 THEN 1 ELSE 2 * Pow2(n - 1)

\* a double that a position can be advanced by
InLin(a) == a.k = "z" \/ (a.k = "f" /\ a.e >= 0 - LinFrac /\ a.e <= LinMaxExp)

\* the value of such a double in units of 2^-LinFrac
Lin(a) == IF a.k = "z" THEN 0 ELSE a.s * Pow2(a.e + LinFrac)

One == Fin(1, 0)

Two == Fin(1, 1)

Four == Fin(1, 2)

Half == Fin(1, -1)

Quarter == Fin(1, -2)

\* 1e-20, the floor of the error estimate
ErrorFloor == Fin(1, -66)

\* 1_mm in the native length unit
OneMm == Fin(1, 0)

\* ------------------------------------------------------------------------
\* 2x2 matrices <<a, b, c, d>> = [a b; c d] and 2-vectors <<x, y>>
\* ------------------------------------------------------------------------

Identity == <<1, 0, 0, 1>>

ZeroVec == <<0, 0>>

MatMul(A, B) ==
  << A[1] * B[1] + A[2] * B[3], A[1] * B[2] + A[2] * B[4],
     A[3] * B[1] + A[4] * B[3], A[3] * B[2] + A[4] * B[4] >>

Transpose(A) == << A[1], A[3], A[2], A[4] >>

MatSub(A, B) == << A[1] - B[1], A[2] - B[2], A[3] - B[3], A[4] - B[4] >>

\* column vector times row vector
Outer(v, w) == << v[1] * w[1], v[1] * w[2], v[2] * w[1], v[2] * w[2] >>

\* J * C * J^T
Sandwich(J, C) == MatMul(MatMul(J, C), Transpose(J))

\* ------------------------------------------------------------------------
\* exact arithmetic on fractions n/d with the IEEE results of a division by
\* zero (infinity) and of 0 * inf, inf - inf (NaN)
\* ------------------------------------------------------------------------

RECURSIVE GCD(_, _)
GCD(a, b) == IF b = 0 THEN a ELSE GCD(b, a % b)

Abs(n) == IF n < 0 THEN 0 - n ELSE n

Sign(n) == IF n < 0 THEN -1 ELSE 1

RNaN == [k |-> "n", n |-> 0, d |-> 0]

RInf(sg) == [k |-> "i", n |-> sg, d |-> 0]

\* the fraction n/d, d > 0, in lowest terms
Frac(n, d) ==
  [k |-> "f", n |-> n \div GCD(Abs(n), d), d |-> d \div GCD(Abs(n), d)]

R(n) == [k |-> "f", n |-> n, d |-> 1]

RNeg(a) == IF a.k = "n" THEN a ELSE [a EXCEPT !.n = 0 - a.n]

RAdd(a, b) ==
  IF a.k = "n" \/ b.k = "n" THEN RNaN
  ELSE IF a.k = "i" /\ b.k = "i" THEN (IF a.n = b.n THEN a ELSE RNaN)
  ELSE IF a.k = "i" THEN a
  ELSE IF b.k = "i" THEN b
  ELSE Frac(a.n * b.d + b.n * a.d, a.d * b.d)

RSub(a, b) == RAdd(a, RNeg(b))

RMul(a, b) ==
  IF a.k = "n" \/ b.k = "n" THEN RNaN
  ELSE IF a.k = "i" /\ b.k = "i" THEN RInf(a.n * b.n)
  ELSE IF a.k = "i" THEN (IF b.n = 0 THEN RNaN ELSE RInf(a.n * Sign(b.n)))
  ELSE IF b.k = "i" THEN (IF a.n = 0 THEN RNaN ELSE RInf(b.n * Sign(a.n)))
  ELSE Frac(a.n * b.n, a.d * b.d)

\* the inverse of a 1x1 matrix: 1 / a
RInv(a) ==
  IF a.k = "n" THEN RNaN
  ELSE IF a.k = "i" THEN R(0)
  ELSE IF a.n = 0 THEN RInf(1)
  ELSE Frac(Sign(a.n) * a.d, Abs(a.n))

IsFinite(a) == a.k = "f"

\* ------------------------------------------------------------------------
\* positions and path lengths: an integer on the 2^-LinFrac grid, or Out
\* when the value has left the window the model tracks (too far, inf, NaN)
\* ------------------------------------------------------------------------

At(n) == [out |-> FALSE, v |-> n]

Out == [out |-> TRUE, v |-> 0]

\* p + d; a d below the grid resolution is absorbed
LinAdd(p, d) ==
  IF p.out THEN Out
  ELSE IF d.k = "z" \/ (d.k = "f" /\ d.e < 0 - LinFrac) THEN p
  ELSE IF InLin(d) THEN At(p.v + Lin(d))
  ELSE Out

\* ------------------------------------------------------------------------
\* State
\* ------------------------------------------------------------------------

VARIABLES
  stepper,    \* which stepper implementation owns the state
  stepping,   \* state.stepping
  options,    \* state.options
  lastCall,   \* the last stepper call and what it returned
  calls,      \* number of stepper calls made so far
  trackState, \* the track state handed to the GainMatrixUpdater
  updated,    \* what the updater returned ("true", "false"), "none" before
  fitPhase,   \* KalmanFitter::fit: "off", "propagating", "returned", "threw",
              \* "crashed"
  inputMeasurements,  \* the surfaces of the actor's measurement map
  targetSurface,      \* the actor's target surface, "null" for nullptr
  result,     \* the actor's this_result
  navigation, \* state.navigation
  history,    \* the updater and smoother calls made during the fit
  probe,      \* the last actor call: the state before it and after filter
  propSteps   \* number of steps the propagation loop has made

Steppers == {"Eigen", "EigenLegacy", "StraightLine", "Atlas"}

AdaptiveEigen == {"Eigen", "EigenLegacy"}

\* the record kept about a call; value is meaningful when ok, unshrunk says
\* that some retry of the step did not shrink the step size, rawNorm2 is
\* the squared length the direction had in an accepted step before it was
\* renormalized
NoCall ==
  [ op |-> "none", ok |-> TRUE, value |-> Zero, error |-> "none",
    hang |-> FALSE, exit |-> "none", attempts |-> 0, tries |-> 0,
    collapsed |-> FALSE, unshrunk |-> FALSE, rkH |-> Zero,
    failStage |-> "none",
    failed |-> FALSE, reinitialize |-> FALSE, normal |-> 0,
    rawNorm2 |-> R(1),
    bound |-> [hasCov |-> FALSE, cov |-> <<0, 0, 0, 0>>,
               jacobian |-> <<1, 0, 0, 1>>, pos |-> At(0),
               pathLength |-> At(0), phi |-> 0, p |-> One, q |-> 1,
               time |-> At(0)],
    pre |-> [pos |-> At(0), navDir |-> 1, stepSize |-> Zero,
             pathAccumulated |-> At(0), covTransport |-> FALSE,
             cov |-> <<0, 0, 0, 0>>, jacTransport |-> <<1, 0, 0, 1>>,
             jacToGlobal |-> <<1, 0, 0, 1>>, jacobian |-> <<1, 0, 0, 1>>,
             derivative |-> <<0, 0>>,
             dir |-> [phi |-> 0, norm2 |-> R(1)], p |-> One, q |-> 1,
             qop |-> Zero, t0 |-> At(0), dt |-> At(0), ready |-> TRUE,
             covariance |-> <<0, 0, 0, 0>>] ]

\* ------------------------------------------------------------------------
\* EigenStepper::step
\* ------------------------------------------------------------------------

\* does stage k2, k3 or k4 of the extension fail in the n-th trial
TryFails(env, n) == env.failStage \in {"k2", "k3", "k4"} /\ n >= env.failFrom

\* the lambda tryRungeKuttaStep: a failing stage leaves error_estimate as is
tryRungeKuttaStep(opt, env, h, err, n) ==
  IF TryFails(env, n) THEN [ok |-> FALSE, err |-> err]
  ELSE LET e == StdMax(DMul(DMul(h, h), env.kn), ErrorFloor)
       IN  [ok |-> DLeq(e, opt.tolerance), err |-> e]

StepSizeScaling(opt, err) ==
  StdMin(StdMax(Quarter,
                Pow025(DDiv(opt.tolerance, DAbs(DMul(Two, err))))),
         Four)

\* stepSize * stepSize < stepSizeCutOff * stepSizeCutOff
BelowCutOff(opt, h) ==
  DLess(DMul(h, h), DMul(opt.stepSizeCutOff, opt.stepSizeCutOff))

LoopStart(h) ==
  [ stepSize |-> h, err |-> Zero, attempts |-> 0, tries |-> 0,
    rkH |-> Zero, collapsed |-> FALSE, unshrunk |-> FALSE, failed |-> FALSE,
    exit |-> "none" ]

\* the retry that replaced the step size old by new shrank it: new is
\* smaller in magnitude, not below a quarter of old, and not of the other
\* sign
Shrunk(old, new) ==
  /\ DLess(DAbs(new), DAbs(old))
  /\ DLeq(DMul(Quarter, DAbs(old)), DAbs(new))
  /\ ~(DLess(new, Zero) /\ DLess(Zero, old))
  /\ ~(DLess(Zero, new) /\ DLess(old, Zero))

\* one pass of the loop "while (!tryRungeKuttaStep(stepSize)) { ... }" of
\* the current EigenStepper::step; a loop that has ended stays as it is
RetryPass(opt, env, navDir, s) ==
  IF s.exit # "none" THEN s
  ELSE
  LET n  == s.tries + 1
      t  == tryRungeKuttaStep(opt, env, s.stepSize, s.err, n)
      s1 == [s EXCEPT !.tries = n, !.err = t.err, !.rkH = s.stepSize,
                      !.failed = s.failed \/ TryFails(env, n)]
  IN
  IF t.ok THEN [s1 EXCEPT !.exit = "accepted"]
  ELSE
    LET sc == StepSizeScaling(opt, t.err) IN
    IF sc = One THEN [s1 EXCEPT !.exit = "unscaled"]
    ELSE
      LET h  == DMul(s.stepSize, sc)
          s2 == [s1 EXCEPT !.stepSize = h,
                           !.attempts = s.attempts + 1,
                           !.collapsed = s.collapsed \/ BelowCutOff(opt, h),
                           !.unshrunk = s.unshrunk \/ ~Shrunk(s.stepSize, h)]
      IN
      IF s2.attempts = MaxStepAttempts
        THEN [s2 EXCEPT !.stepSize = DMul(Fin(navDir, 0), OneMm),
                        !.unshrunk =
                          s.unshrunk
                            \/ ~Shrunk(s.stepSize, DMul(Fin(navDir, 0), OneMm)),
                        !.exit = "fallback"]
      ELSE IF BelowCutOff(opt, h) THEN [s2 EXCEPT !.exit = "stalled"]
      ELSE s2

\* one pass of the loop of the older EigenStepper::step, which has no retry
\* counter: the loop never ends once a failed trial reproduces itself
LegacyRetryPass(opt, env, s) ==
  IF s.exit # "none" THEN s
  ELSE
  LET n  == s.tries + 1
      t  == tryRungeKuttaStep(opt, env, s.stepSize, s.err, n)
      s1 == [s EXCEPT !.tries = n, !.err = t.err, !.rkH = s.stepSize,
                      !.failed = s.failed \/ TryFails(env, n)]
  IN
  IF t.ok THEN [s1 EXCEPT !.exit = "accepted"]
  ELSE
    LET sc == StepSizeScaling(opt, t.err) IN
    IF sc = One THEN [s1 EXCEPT !.exit = "unscaled"]
    ELSE
      LET h  == DMul(s.stepSize, sc)
          s2 == [s1 EXCEPT !.stepSize = h,
                           !.attempts = s.attempts + 1,
                           !.collapsed = s.collapsed \/ BelowCutOff(opt, h),
                           !.unshrunk = s.unshrunk \/ ~Shrunk(s.stepSize, h)]
      IN
      IF BelowCutOff(opt, h) THEN [s2 EXCEPT !.exit = "stalled"]
      ELSE IF h = s.stepSize /\ TryFails(env, n) = TryFails(env, n + 1)
        THEN [s2 EXCEPT !.exit = "hang"]
      ELSE s2

\* a step size takes at most this many values while it only grows or only
\* shrinks, so a loop that is still running after as many passes never ends
LoopBound == 2 * MaxExp + 8

\* n passes of the loop, evaluated by halving n (the singleton sets make the
\* intermediate loop state a value that is computed once)
RECURSIVE RetryLoop(_, _, _, _, _)
RetryLoop(n, opt, env, navDir, s) ==
  IF s.exit # "none" THEN s
  ELSE IF n <= 1 THEN RetryPass(opt, env, navDir, s)
  ELSE CHOOSE r \in { RetryLoop(n \div 2, opt, env, navDir, m) :
                       m \in {RetryLoop(n - (n \div 2), opt, env, navDir, s)} } :
         TRUE

RECURSIVE LegacyRetryLoop(_, _, _, _)
LegacyRetryLoop(n, opt, env, s) ==
  IF s.exit # "none" THEN s
  ELSE IF n <= 1 THEN LegacyRetryPass(opt, env, s)
  ELSE CHOOSE r \in { LegacyRetryLoop(n \div 2, opt, env, m) :
                       m \in {LegacyRetryLoop(n - (n \div 2), opt, env, s)} } :
         TRUE

\* a direction that is left at the length the step gave it
NotNormalized(norm2) == norm2

\* dir /= dir.norm(): the squared length of a direction of squared length
\* norm2 after it has been divided by its own length
Normalized(norm2) == RMul(norm2, RInv(norm2))

\* the part of EigenStepper::step after the retry loop has ended in s
AfterRetryLoop(variant, st, env, s) ==
  IF s.exit \in {"hang", "none"} THEN
    [ stepping |-> [st EXCEPT !.stepSize = s.stepSize],
      call |-> [NoCall EXCEPT !.op = "step", !.failStage = env.failStage,
                  !.exit = "hang", !.attempts = s.attempts,
                  !.tries = s.tries, !.collapsed = s.collapsed,
                  !.unshrunk = s.unshrunk,
                  !.rkH = s.rkH, !.failed = s.failed, !.ok = FALSE,
                  !.hang = TRUE] ]
  ELSE IF s.exit = "stalled" \/ env.failStage = "finalize" THEN
    [ stepping |-> [st EXCEPT !.stepSize = s.stepSize],
      call |-> [NoCall EXCEPT !.op = "step", !.failStage = env.failStage,
                  !.exit = s.exit, !.attempts = s.attempts,
                  !.tries = s.tries, !.collapsed = s.collapsed,
                  !.unshrunk = s.unshrunk,
                  !.rkH = s.rkH, !.ok = FALSE,
                  !.failed = s.failed \/ s.exit # "stalled",
                  !.error = IF s.exit = "stalled" THEN "StepSizeStalled"
                            ELSE "StepInvalid"] ]
  ELSE
    [ stepping |->
        [st EXCEPT
           !.stepSize = s.stepSize,
           !.jacTransport = IF st.covTransport
                              THEN MatMul(env.D, st.jacTransport) ELSE @,
           !.pos = LinAdd(LinAdd(@, s.stepSize),
                          DMul(DMul(s.rkH, s.rkH), env.ksum)),
           !.dir = [phi |-> (@.phi + env.D[3]) % 2,
                    norm2 |-> Normalized(env.A2)],
           !.derivative = IF st.covTransport \/ variant = "EigenLegacy"
                            THEN <<1, env.D[3]>> ELSE @,
           !.pathAccumulated = LinAdd(@, s.stepSize)],
      call |-> [NoCall EXCEPT !.op = "step", !.failStage = env.failStage,
                  !.exit = s.exit, !.attempts = s.attempts,
                  !.tries = s.tries, !.collapsed = s.collapsed,
                  !.unshrunk = s.unshrunk,
                  !.rkH = s.rkH, !.failed = s.failed,
                  !.value = s.stepSize, !.rawNorm2 = env.A2] ]

\* the whole of EigenStepper::step as a function of the state and of what
\* the extension and the field answer during the call
EigenStep(variant, st, opt, env) ==
  IF env.failStage \in {"valid", "k1"} THEN
    [ stepping |-> st,
      call |-> [NoCall EXCEPT !.op = "step", !.failStage = env.failStage,
                              !.failed = TRUE] ]
  ELSE
    CHOOSE r \in
      { AfterRetryLoop(variant, st, env, s) :
          s \in { IF variant = "Eigen"
                    THEN RetryLoop(LoopBound, opt, env, st.navDir,
                                   LoopStart(st.stepSize))
                    ELSE LegacyRetryLoop(LoopBound, opt, env,
                                         LoopStart(st.stepSize)) } } : TRUE

\* ------------------------------------------------------------------------
\* StraightLineStepper::step
\* ------------------------------------------------------------------------

\* std::hypot(1, mass / p) for the massless hypothesis the model steps with
TimePerLength(p) == IF p = Zero \/ IsNaN(p) THEN NaN ELSE One

\* a step that moves the state and forgets the path length
StepForgettingPath(st) ==
  [ stepping |->
      [st EXCEPT
         !.pos = LinAdd(@, st.stepSize),
         !.dt = LinAdd(@, DMul(st.stepSize, TimePerLength(st.p))),
         !.jacTransport = IF st.covTransport
                            THEN MatMul(<<1, Lin(st.stepSize), 0, 1>>, @)
                            ELSE @,
         !.derivative = IF st.covTransport THEN <<1, 0>> ELSE @],
    call |-> [NoCall EXCEPT !.op = "step", !.value = st.stepSize,
                            !.exit = "accepted", !.tries = 1,
                            !.rkH = st.stepSize] ]

\* a step that moves the state and leaves the transport jacobian alone
StepWithoutTranslation(st) ==
  [ stepping |->
      [st EXCEPT
         !.pos = LinAdd(@, st.stepSize),
         !.dt = LinAdd(@, DMul(st.stepSize, TimePerLength(st.p))),
         !.derivative = IF st.covTransport THEN <<1, 0>> ELSE @,
         !.pathAccumulated = LinAdd(@, st.stepSize)],
    call |-> [NoCall EXCEPT !.op = "step", !.value = st.stepSize,
                            !.exit = "accepted", !.tries = 1,
                            !.rkH = st.stepSize] ]

StraightLineStep(st) ==
  LET h == st.stepSize IN
  [ stepping |->
      [st EXCEPT
         !.pos = LinAdd(@, h),
         !.dt = LinAdd(@, DMul(h, TimePerLength(st.p))),
         !.jacTransport = IF st.covTransport
                            THEN MatMul(<<1, Lin(h), 0, 1>>, @) ELSE @,
         !.derivative = IF st.covTransport THEN <<1, 0>> ELSE @,
         !.pathAccumulated = LinAdd(@, h)],
    call |-> [NoCall EXCEPT !.op = "step", !.value = h, !.exit = "accepted",
                            !.tries = 1, !.rkH = h] ]

\* ------------------------------------------------------------------------
\* AtlasStepper::step
\* ------------------------------------------------------------------------

\* 0.0002, the largest accepted error estimate EST (rounded to 2^-13)
EstThreshold == Fin(1, -13)

\* EST of a trial of length h in a field whose variation is env.fg
EST(env, h) == DMul(Two, DMul(env.fg, DAbs(h)))

\* one pass of "while (h != 0.) { ... if (EST > 0.0002) { h *= .5;
\* continue; } ... return h; }"
HalvingPass(env, s) ==
  IF s.exit # "none" THEN s
  ELSE IF s.h = Zero THEN [s EXCEPT !.exit = "exhausted"]
  ELSE IF DLess(EstThreshold, EST(env, s.h))
    THEN [s EXCEPT !.h = DMul(s.h, Half), !.attempts = s.attempts + 1,
                   !.tries = s.tries + 1]
  ELSE [s EXCEPT !.exit = "accepted", !.tries = s.tries + 1]

RECURSIVE HalvingLoop(_, _, _)
HalvingLoop(n, env, s) ==
  IF s.exit # "none" THEN s
  ELSE IF n <= 1 THEN HalvingPass(env, s)
  ELSE CHOOSE r \in { HalvingLoop(n \div 2, env, m) :
                       m \in {HalvingLoop(n - (n \div 2), env, s)} } :
         TRUE

\* "D = (A.A) - 9; D = 1/3 - (1/648) D (12 - D); A *= D": the squared
\* length of the direction the AtlasStepper stores, A2 being the squared
\* length of the Runge-Kutta sum A (9 when the direction did not turn)
SeriesNormalized(A2) ==
  RMul(A2,
       RMul(RSub(Frac(1, 3),
                 RMul(RMul(Frac(1, 648), RSub(A2, R(9))),
                      RSub(R(12), RSub(A2, R(9))))),
            RSub(Frac(1, 3),
                 RMul(RMul(Frac(1, 648), RSub(A2, R(9))),
                      RSub(R(12), RSub(A2, R(9)))))))

\* the part of AtlasStepper::step after the loop has ended in s: the state
\* is advanced inside the loop only, the path length on both exits
AfterHalvingLoop(st, env, s) ==
  [ stepping |->
      [st EXCEPT
         !.pos = IF s.exit = "accepted" THEN LinAdd(@, s.h) ELSE @,
         !.dir = IF s.exit = "accepted"
                   THEN [phi |-> (@.phi + env.D[3]) % 2,
                         norm2 |-> SeriesNormalized(env.A2)]
                   ELSE @,
         !.dt = IF s.exit = "accepted"
                  THEN LinAdd(@, DMul(s.h, TimePerLength(
                                             DDiv(One, DAbs(st.qop)))))
                  ELSE @,
         !.jacTransport = IF s.exit = "accepted" /\ st.covTransport
                            THEN MatMul(env.D, @) ELSE @,
         !.pathAccumulated = LinAdd(@, s.h)],
    call |-> [NoCall EXCEPT !.op = "step", !.value = s.h, !.exit = s.exit,
                            !.attempts = s.attempts, !.tries = s.tries,
                            !.collapsed = (s.attempts > 0 /\ s.h = Zero),
                            !.rkH = s.h,
                            !.rawNorm2 = IF s.exit = "accepted" THEN env.A2
                                         ELSE @] ]

AtlasStep(st, env) ==
  CHOOSE r \in
    { AfterHalvingLoop(st, env, s) :
        s \in { HalvingLoop(LoopBound, env,
                            [h |-> st.stepSize, attempts |-> 0, tries |-> 0,
                             exit |-> "none"]) } } : TRUE

\* ------------------------------------------------------------------------
\* covarianceTransport, boundState, curvilinearState, update
\* (EigenStepper, the older EigenStepper, StraightLineStepper)
\* ------------------------------------------------------------------------

\* the accessors of a stepper: position(state), direction(state),
\* momentum(state), charge(state), time(state); the AtlasStepper keeps
\* charge over momentum in pVector[7]
position(st) == st.pos

direction(st) == st.dir.phi

momentum(variant, st) ==
  IF variant = "Atlas" THEN DDiv(One, DAbs(st.qop)) ELSE st.p

charge(variant, st) ==
  IF variant = "Atlas" THEN (IF DLess(Zero, st.qop) THEN 1 ELSE -1) ELSE st.q

time(st) ==
  IF st.t0.out \/ st.dt.out THEN Out ELSE At(st.t0.v + st.dt.v)

\* surface.derivativeFactors(..., jac): the surface normal (normal, 0)
\* applied to the position rows of jac; the curvilinear frame has normal 1
DerivativeFactors(normal, jac) == <<normal * jac[1], normal * jac[2]>>

\* jacFull = jac - derivative * sVec
FullJacobian(jac, derivative, normal) ==
  MatSub(jac, Outer(derivative, DerivativeFactors(normal, jac)))

\* the fold of jacFull into covariance and jacobian, then the optional reset;
\* the surface version also clears the derivative
FoldAndReset(st, jacFull, toSurface, reinitialize) ==
  [st EXCEPT
     !.cov = Sandwich(jacFull, st.cov),
     !.jacTransport = IF reinitialize THEN Identity ELSE @,
     !.derivative = IF reinitialize /\ toSurface THEN ZeroVec ELSE @,
     !.jacobian = MatMul(jacFull, st.jacobian)]

\* the older EigenStepper first multiplies jacTransport into jacToGlobal
LegacyFoldAndReset(st, jacToGlobal, jacFull, toSurface, reinitialize) ==
  [st EXCEPT
     !.cov = Sandwich(jacFull, st.cov),
     !.jacToGlobal = IF reinitialize THEN Identity ELSE jacToGlobal,
     !.jacTransport = IF reinitialize THEN Identity ELSE @,
     !.derivative = IF reinitialize /\ toSurface THEN ZeroVec ELSE @,
     !.jacobian = MatMul(jacFull, st.jacobian)]

LegacyCovarianceTransport(st, jacToGlobal, normal, toSurface, reinitialize) ==
  LegacyFoldAndReset(st, jacToGlobal,
                     FullJacobian(jacToGlobal, st.derivative, normal),
                     toSurface, reinitialize)

\* the wrong order: jacTransport is reset first and the fold then works on
\* the reset matrix
ResetThenFold(variant, st, normal, toSurface, reinitialize) ==
  FoldAndReset(st,
               FullJacobian(IF reinitialize THEN Identity ELSE st.jacTransport,
                            st.derivative, normal),
               toSurface, reinitialize)

covarianceTransport(variant, st, normal, toSurface, reinitialize) ==
  IF variant = "EigenLegacy"
    THEN LegacyCovarianceTransport(st, MatMul(st.jacTransport, st.jacToGlobal),
                                   normal, toSurface, reinitialize)
    ELSE FoldAndReset(st, FullJacobian(st.jacTransport, st.derivative, normal),
                      toSurface, reinitialize)

\* the tail of boundState / curvilinearState: build the returned state from
\* the transported stepper state st, then reset the jacobian
BuildBoundState(op, st, normal, reinitialize) ==
  [ stepping |-> [st EXCEPT !.jacobian = IF reinitialize THEN Identity ELSE @],
    call |-> [NoCall EXCEPT
                !.op = op, !.reinitialize = reinitialize, !.normal = normal,
                !.bound = [hasCov |-> st.covTransport, cov |-> st.cov,
                           jacobian |-> st.jacobian, pos |-> st.pos,
                           pathLength |-> st.pathAccumulated,
                           phi |-> st.dir.phi, p |-> st.p, q |-> st.q,
                           time |-> time(st)]] ]

\* AtlasStepper::covarianceTransport: the jacobian since the start (or the
\* last update) is built from the derivatives kept in pVector and applied to
\* the covariance the state started with; pVector is left as it is
AtlasCovarianceTransport(st, normal) ==
  [st EXCEPT
     !.jacobian = FullJacobian(st.jacTransport, <<1, 0>>, normal),
     !.cov = Sandwich(FullJacobian(st.jacTransport, <<1, 0>>, normal),
                      st.covariance)]

\* the tail of AtlasStepper::boundState / curvilinearState for the
\* transported state st; the flag reinitialize is not used
AtlasBuildBoundState(op, st, normal, reinitialize) ==
  [ stepping |-> st,
    call |-> [NoCall EXCEPT
                !.op = op, !.reinitialize = reinitialize, !.normal = normal,
                !.bound = [hasCov |-> st.covTransport, cov |-> st.cov,
                           jacobian |-> st.jacobian, pos |-> st.pos,
                           pathLength |-> st.pathAccumulated,
                           phi |-> st.dir.phi,
                           p |-> DDiv(One, DAbs(st.qop)),
                           q |-> IF DLess(Zero, st.qop) THEN 1 ELSE -1,
                           time |-> time(st)]] ]

AtlasBoundState(op, st, normal, reinitialize) ==
  IF st.covTransport
    THEN AtlasBuildBoundState(op,
           AtlasCovarianceTransport([st EXCEPT !.ready = FALSE], normal),
           normal, reinitialize)
    ELSE AtlasBuildBoundState(op, [st EXCEPT !.ready = FALSE], normal,
                              reinitialize)

boundState(variant, st, normal, reinitialize) ==
  IF variant = "Atlas"
    THEN AtlasBoundState("boundState", st, normal, reinitialize)
  ELSE IF st.covTransport
    THEN BuildBoundState("boundState",
           covarianceTransport(variant, st, normal, TRUE, reinitialize),
           normal, reinitialize)
    ELSE BuildBoundState("boundState", st, normal, reinitialize)

curvilinearState(variant, st, reinitialize) ==
  IF variant = "Atlas"
    THEN AtlasBoundState("curvilinearState", st, 1, reinitialize)
  ELSE IF st.covTransport
    THEN BuildBoundState("curvilinearState",
           covarianceTransport(variant, st, 1, FALSE, reinitialize),
           1, reinitialize)
    ELSE BuildBoundState("curvilinearState", st, 1, reinitialize)

\* the double of a charge -1, 0, 1
ChargeValue(q) == IF q = 0 THEN Zero ELSE Fin(q, 0)

\* an update that also starts the transport jacobian again
UpdateResetting(st, pars) ==
  [ stepping |-> [st EXCEPT !.pos = pars.pos,
                            !.dir = [phi |-> pars.phi, norm2 |-> R(1)],
                            !.p = pars.p,
                            !.dt = pars.time,
                            !.jacTransport = Identity,
                            !.cov = IF pars.hasCov THEN pars.cov ELSE @],
    call |-> [NoCall EXCEPT !.op = "update", !.bound = pars] ]

\* update(state, BoundParameters) of the EigenStepper and of the
\* StraightLineStepper: dir is the normalized momentum
update(st, pars) ==
  [ stepping |-> [st EXCEPT !.pos = pars.pos,
                            !.dir = [phi |-> pars.phi, norm2 |-> R(1)],
                            !.p = pars.p,
                            !.dt = pars.time,
                            !.cov = IF pars.hasCov THEN pars.cov ELSE @],
    call |-> [NoCall EXCEPT !.op = "update", !.bound = pars] ]

\* update(state, BoundParameters) of the older EigenStepper, which keeps
\* no time
LegacyUpdate(st, pars) ==
  [ stepping |-> [st EXCEPT !.pos = pars.pos,
                            !.dir = [phi |-> pars.phi, norm2 |-> R(1)],
                            !.p = pars.p,
                            !.cov = IF pars.hasCov THEN pars.cov ELSE @],
    call |-> [NoCall EXCEPT !.op = "update", !.bound = pars] ]

\* 1e-15, the smallest magnitude of pVector[7] the AtlasStepper accepts
\* from track parameters
QopFloor == Fin(1, -50)

\* if (std::abs(pVector[7]) < 1e-15) pVector[7] = +-1e-15
ClampQop(qop) ==
  IF DLess(DAbs(qop), QopFloor)
    THEN (IF DLess(qop, Zero) THEN DNeg(QopFloor) ELSE QopFloor)
    ELSE qop

\* AtlasStepper::update(state, BoundParameters): nothing happens while the
\* state is ready; otherwise pVector is filled from the parameters and, with
\* a covariance, the derivatives in pVector start again
AtlasUpdate(st, pars) ==
  [ stepping |->
      IF st.ready THEN st
      ELSE [st EXCEPT
              !.pos = pars.pos,
              !.dt = pars.time,
              !.dir = [phi |-> pars.phi, norm2 |-> R(1)],
              !.qop = ClampQop(DDiv(ChargeValue(pars.q), pars.p)),
              !.covariance = IF pars.hasCov THEN pars.cov ELSE @,
              !.covTransport = IF pars.hasCov THEN TRUE ELSE @,
              !.jacTransport = IF pars.hasCov THEN Identity ELSE @,
              !.ready = TRUE],
    call |-> [NoCall EXCEPT !.op = "update", !.bound = pars] ]

\* update(state, BoundParameters) of the stepper variant
UpdateOf(variant, st, pars) ==
  IF variant = "Atlas" THEN AtlasUpdate(st, pars)
  ELSE IF variant = "EigenLegacy" THEN LegacyUpdate(st, pars)
  ELSE update(st, pars)

\* update(state, uposition, udirection, up, time); the older EigenStepper
\* takes no time, the AtlasStepper stores charge(state) / up
UpdateFree(variant, st, pars) ==
  [ stepping |->
      IF variant = "Atlas"
        THEN [st EXCEPT
                !.pos = pars.pos, !.dt = pars.time,
                !.dir = [phi |-> pars.phi, norm2 |-> R(1)],
                !.qop = DDiv(ChargeValue(charge(variant, st)), pars.p)]
      ELSE [st EXCEPT
              !.pos = pars.pos,
              !.dir = [phi |-> pars.phi, norm2 |-> R(1)],
              !.p = pars.p,
              !.dt = IF variant = "EigenLegacy" THEN @ ELSE pars.time],
    call |-> [NoCall EXCEPT !.op = "updateFree", !.bound = pars] ]

\* ------------------------------------------------------------------------
\* GainMatrixUpdater, on the fractions defined above
\* ------------------------------------------------------------------------

\* the state has two parameters (loc0, phi); the measurement is of loc0, so
\* the projector H is (1 0), H P H^T is P[1], P H^T is the first column of P
\* and H K is K[1].

\* a gain that leaves the measurement covariance out
GainWithoutNoise(P, V) ==
  << RMul(P[1], RInv(P[1])), RMul(P[3], RInv(P[1])) >>

\* K = P H^T (H P H^T + V)^-1
GainMatrix(P, V) ==
  << RMul(P[1], RInv(RAdd(P[1], V))), RMul(P[3], RInv(RAdd(P[1], V))) >>

\* predicted + K * calibrated.residual(predicted)
FilteredParameters(par, K, m) ==
  << RAdd(par[1], RMul(K[1], RSub(m, par[1]))),
     RAdd(par[2], RMul(K[2], RSub(m, par[1]))) >>

\* (Identity - K H) * P
FilteredCovariance(P, K) ==
  << RMul(RSub(R(1), K[1]), P[1]), RMul(RSub(R(1), K[1]), P[2]),
     RAdd(RMul(RNeg(K[2]), P[1]), P[3]), RAdd(RMul(RNeg(K[2]), P[2]), P[4]) >>

\* a chi2 that weighs the filtered residual with the measurement covariance
Chi2OfMeasurement(filtered, K, m, V) ==
  RMul(RMul(RSub(m, filtered[1]), RInv(V)), RSub(m, filtered[1]))

\* r^T ((Identity - H K) V)^-1 r with r the residual of the filtered state
Chi2(filtered, K, m, V) ==
  RMul(RMul(RSub(m, filtered[1]), RInv(RMul(RSub(R(1), K[1]), V))),
       RSub(m, filtered[1]))

\* the visitor of GainMatrixUpdater::operator() for gain matrix K
StoreFiltered(ts, K) ==
  [ts EXCEPT
     !.calibrated = TRUE,
     !.hasFiltered = TRUE,
     !.filtered = [par |-> FilteredParameters(ts.predicted.par, K, ts.m),
                   cov |-> FilteredCovariance(ts.predicted.cov, K)],
     !.chi2 = Chi2(FilteredParameters(ts.predicted.par, K, ts.m), K,
                   ts.m, ts.V)]

\* GainMatrixUpdater::operator(): the new track state and the returned bool
GainMatrixUpdate(ts) ==
  [ trackState |-> StoreFiltered(ts, GainMatrix(ts.predicted.cov, ts.V)),
    result |-> TRUE ]

\* a track state with a prediction and an uncalibrated measurement
NewTrackState(par, cov, m, V) ==
  [ predicted |-> [par |-> par, cov |-> cov], m |-> m, V |-> V,
    calibrated |-> FALSE, hasFiltered |-> FALSE,
    filtered |-> [par |-> <<R(0), R(0)>>, cov |-> <<R(0), R(0), R(0), R(0)>>],
    chi2 |-> R(0) ]

\* predicted covariances (symmetric, positive semi-definite), measured
\* values and measurement variances offered to the updater
PredictedCovariances ==
  { <<R(u[1]), R(u[2]), R(u[2]), R(u[3])>> :
      u \in { w \in {0, 1, 2} \X {0, 1} \X {1, 2} :
                w[1] * w[3] >= w[2] * w[2] } }

MeasuredValues == {R(0), R(1), R(3)}

MeasurementVariances == {R(0), R(1), R(2)}

PredictedLocs == {R(0), R(1)}

UpdaterIdle ==
  /\ trackState = NewTrackState(<<R(0), R(0)>>, <<R(1), R(0), R(0), R(1)>>,
                                R(0), R(1))
  /\ updated = "none"

\* ------------------------------------------------------------------------
\* KalmanFitter: the actor (filter, finalize, post-finalization)
\* ------------------------------------------------------------------------

\* the surfaces the navigator can report as the current surface: A and B can
\* carry measurements, H is sensitive, P is passive
FitSurfaces == {"A", "B", "H", "P"}

\* surfaces with associatedDetectorElement() != nullptr
Sensitive == {"A", "B", "H"}

NoParameters ==
  [ hasCov |-> FALSE, cov |-> <<0, 0, 0, 0>>, jacobian |-> Identity,
    pos |-> At(0), pathLength |-> At(0), phi |-> 0, p |-> One, q |-> 1,
    time |-> At(0) ]

\* this_result as default-constructed
NewResult ==
  [ fittedStates |-> <<>>, hasFittedParameters |-> FALSE,
    fittedParameters |-> NoParameters, processedStates |-> 0,
    smoothed |-> FALSE, initialized |-> FALSE,
    missedActiveSurfaces |-> <<>> ]

NewHistory ==
  [ updates |-> <<>>, smootherCalls |-> 0, smootherInput |-> <<>>,
    smootherSucceeded |-> FALSE, updatedAtSmoothing |-> {},
    updateAfterSmoother |-> FALSE ]

Range(q) == { q[i] : i \in 1..Len(q) }

\* the track state of a measurement surface as filter fills it from the
\* bound state b; the updater sets the filtered parameters
FilledTrackState(surface, b) ==
  [ surface |-> surface, pos |-> b.pos.v, pathLength |-> b.pathLength.v,
    filtered |-> TRUE, smoothed |-> FALSE ]

\* what the updater is given in filter: the prediction with its covariance
PredictedTrackState(b) ==
  NewTrackState(<<R(0), R(0)>>,
                <<R(b.cov[1]), R(b.cov[2]), R(b.cov[3]), R(b.cov[4])>>,
                R(0), R(1))

\* filter, measurement branch, after stepper.boundState returned b: the
\* updater runs, then the stepper is updated with the filtered parameters
\* (whose covariance is filteredCov) when the updater returned true
FilterMeasurement(ps, surface, b, filteredCov) ==
  [ps EXCEPT
     !.stepping =
        IF GainMatrixUpdate(PredictedTrackState(b.call.bound)).result
          THEN update(b.stepping,
                      [b.call.bound EXCEPT !.hasCov = TRUE,
                                           !.cov = filteredCov]).stepping
          ELSE b.stepping,
     !.result.fittedStates = Append(@, FilledTrackState(surface, b.call.bound)),
     !.result.processedStates = @ + 1,
     !.history.updates = Append(@, surface),
     !.history.updateAfterSmoother = @ \/ ps.history.smootherCalls > 0]

\* a filter that counts a hole as a processed state
FilterCountingHoles(variant, ps, surface, inputs, filteredCov) ==
  IF surface \in inputs
    THEN FilterMeasurement(ps, surface,
                           boundState(variant, ps.stepping, 1, TRUE),
                           filteredCov)
  ELSE IF surface \in Sensitive
    THEN [ps EXCEPT !.result.missedActiveSurfaces = Append(@, surface),
                    !.result.processedStates = @ + 1]
  ELSE ps

\* KalmanFitter::Actor::filter
filter(variant, ps, surface, inputs, filteredCov) ==
  IF surface \in inputs
    THEN FilterMeasurement(ps, surface,
                           boundState(variant, ps.stepping, 1, TRUE),
                           filteredCov)
  ELSE IF surface \in Sensitive
    THEN [ps EXCEPT !.result.missedActiveSurfaces = Append(@, surface)]
  ELSE ps

\* track states handed on in the reverse of the order they were created in
ReversedOrder(states) ==
  { [i \in 1..Len(states) |-> states[Len(states) + 1 - i]] }

\* the orders std::sort can leave the track states in: every permutation
\* that is ascending in path length
SortedByPathLength(states) ==
  { [i \in 1..Len(states) |-> states[f[i]]] :
      f \in { g \in [1..Len(states) -> 1..Len(states)] :
                /\ \A i, j \in 1..Len(states) : i # j => g[i] # g[j]
                /\ \A i, j \in 1..Len(states) :
                     i < j => states[g[i]].pathLength
                                <= states[g[j]].pathLength } }

\* the smoother: with fewer than two filtered states it reports no smoothed
\* result; otherwise it smooths every state and returns the parameters at
\* the earliest one
Smoother(states) ==
  IF Len(states) < 2
    THEN [ok |-> FALSE, states |-> states, pars |-> NoParameters]
    ELSE [ok |-> TRUE,
          states |-> [i \in 1..Len(states) |->
                        [states[i] EXCEPT !.smoothed = TRUE]],
          pars |-> [NoParameters EXCEPT
                      !.hasCov = TRUE, !.cov = <<1, 0, 0, 1>>,
                      !.pos = At(states[1].pos),
                      !.pathLength = At(states[1].pathLength)]]

\* finalize after the sort left the track states as sorted and the smoother
\* answered sm
AfterSmoother(ps, sorted, sm, maxStepSize) ==
  [ps EXCEPT
     !.result.smoothed = TRUE,
     !.result.fittedStates = sm.states,
     !.stepping = IF sm.ok
                    THEN [update(ps.stepping, sm.pars).stepping
                            EXCEPT !.stepSize = DMul(Fin(-1, 0), maxStepSize)]
                    ELSE @,
     !.direction = IF sm.ok THEN "backward" ELSE @,
     !.history.smootherCalls = @ + 1,
     !.history.smootherInput = sorted,
     !.history.smootherSucceeded = sm.ok,
     !.history.updatedAtSmoothing = Range(ps.history.updates)]

\* KalmanFitter::Actor::finalize
finalize(ps, sorted, maxStepSize) ==
  AfterSmoother(ps, sorted, Smoother(sorted), maxStepSize)

\* post-finalization with the bound state b at the target surface
AssignFitted(ps, b) ==
  [ps EXCEPT
     !.stepping = b.stepping,
     !.result.hasFittedParameters = TRUE,
     !.result.fittedParameters = b.call.bound,
     !.navigation.navigationBreak = TRUE]

\* a post-finalization block that does not test result.smoothed
AssignWheneverReached(variant, ps, reached) ==
  IF reached = "yes"
    THEN AssignFitted(ps, boundState(variant, ps.stepping, 1, TRUE))
    ELSE ps

\* the post-finalization block of the actor; reached is what
\* targetReached(state, stepper, *targetSurface) does: "yes", "no", or with
\* a null target surface also "crash"
PostFinalization(variant, ps, reached) ==
  IF ~ps.result.smoothed THEN ps
  ELSE IF reached = "crash" THEN [ps EXCEPT !.crashed = TRUE]
  ELSE IF reached = "yes"
    THEN AssignFitted(ps, boundState(variant, ps.stepping, 1, TRUE))
  ELSE ps

\* the update block of the actor
FilterIfOnSurface(variant, ps, inputs, filteredCov) ==
  IF ps.navigation.currentSurface # "none" /\ ~ps.result.smoothed
    THEN filter(variant, [ps EXCEPT !.result.initialized = TRUE],
                ps.navigation.currentSurface, inputs, filteredCov)
    ELSE [ps EXCEPT !.result.initialized = TRUE]

\* does the finalization block of the actor run
FinalizationDue(ps, inputs) ==
  ps.result.processedStates = Cardinality(inputs) /\ ~ps.result.smoothed

\* what targetReached can answer for the target surface
ReachedAnswers(target) ==
  IF target = "null" THEN {"yes", "no", "crash"} ELSE {"yes", "no"}

\* the Result of the propagation as Result::value() treats it
ResultValue(ok) == IF ok THEN "value" ELSE "throws"

FitIdle ==
  /\ fitPhase = "off"
  /\ inputMeasurements = {}
  /\ targetSurface = "null"
  /\ result = NewResult
  /\ navigation = [currentSurface |-> "none", navigationBreak |-> FALSE]
  /\ history = NewHistory
  /\ probe = [surface |-> "none", smoothedBefore |-> FALSE,
              before |-> [stepping |-> NoCall.pre, result |-> NewResult,
                          history |-> NewHistory],
              afterFilter |-> [stepping |-> NoCall.pre, result |-> NewResult,
                               history |-> NewHistory]]
  /\ propSteps = 0

\* ------------------------------------------------------------------------
\* Inputs of the model
\* ------------------------------------------------------------------------

\* initial step sizes |ssize|: 0, 1 mm, 4 mm and 2^40 mm
StepSizes == {Zero, Fin(1, 0), Fin(1, 2), Fin(1, 40)}

\* pairs of options.tolerance and options.stepSizeCutOff
OptionSets ==
  { [tolerance |-> Fin(1, -13), stepSizeCutOff |-> c, maxStepSize |-> One,
     direction |-> "forward"] : c \in {Fin(1, -59), Fin(1, -2), Zero} }

\* what the extension and the field answer during one EigenStepper::step:
\* kn is the L1 norm of k1 - k2 - k3 + k4, ksum the size of (k1 + k2 + k3)/6,
\* failStage the extension call that fails (from trial failFrom on; the
\* trial matters for k2, k3 and k4 only, which fail alike),
\* D the transport matrix handed back by finalize
EigenEnvs ==
  { [kn |-> kn, ksum |-> Zero, failStage |-> "none", failFrom |-> 1, D |-> D,
     A2 |-> IF D[3] = 0 THEN R(1) ELSE Frac(49, 64)] :
      kn \in {Zero, Fin(1, -92), Fin(1, -15)},
      D \in {<<1, 1, 0, 1>>, <<1, 1, 1, 1>>} }
  \cup
  { [kn |-> Inf(1), ksum |-> Zero, failStage |-> "none", failFrom |-> 1,
     D |-> <<1, 1, 0, 1>>, A2 |-> R(1)] }
  \cup
  { [kn |-> Fin(1, -92), ksum |-> Zero, failStage |-> "k2", failFrom |-> n,
     D |-> <<1, 1, 0, 1>>, A2 |-> R(1)] : n \in {1, 2} }
  \cup
  { [kn |-> Fin(1, -92), ksum |-> Zero, failStage |-> f, failFrom |-> 1,
     D |-> <<1, 1, 0, 1>>, A2 |-> R(1)] :
      f \in {"valid", "k1", "k3", "k4", "finalize"} }

\* what the field answers during one AtlasStepper::step
AtlasEnvs ==
  { [fg |-> fg, D |-> IF fg = Zero THEN <<1, 1, 0, 1>> ELSE <<1, 1, 1, 1>>,
     A2 |-> IF fg = Zero THEN R(9) ELSE Frac(63, 8)] :
      fg \in {Zero, Fin(1, -14), Inf(1)} }

\* the surface normals a state is bound to: along the track (1), or such
\* that the derivative does not contribute (0)
Normals == {0, 1}

\* parameters handed to update
UpdatePars ==
  { [hasCov |-> FALSE, cov |-> <<0, 0, 0, 0>>, jacobian |-> Identity,
     pos |-> At(1), pathLength |-> At(0), phi |-> 1, p |-> Two, q |-> 1,
     time |-> At(1)],
    [hasCov |-> TRUE, cov |-> <<1, 0, 0, 1>>, jacobian |-> Identity,
     pos |-> At(0), pathLength |-> At(0), phi |-> 0, p |-> One, q |-> 1,
     time |-> At(0)] }

\* ------------------------------------------------------------------------
\* The stepper as a state machine
\* ------------------------------------------------------------------------

stepperVars == <<stepper, stepping, options, lastCall, calls>>

updaterVars == <<trackState, updated>>

fitVars ==
  <<fitPhase, inputMeasurements, targetSurface, result, navigation, history,
    probe, propSteps>>

vars == <<stepperVars, updaterVars, fitVars>>

\* a State constructor that starts every state from the unit covariance
ConstructWithUnitCovariance(variant, par, ndir, ssize) ==
  [ pos |-> par.pos,
    dir |-> [phi |-> par.phi, norm2 |-> R(1)],
    p |-> par.p,
    q |-> par.q,
    qop |-> DDiv(ChargeValue(par.q), par.p),
    t0 |-> par.time,
    dt |-> At(0),
    ready |-> TRUE,
    navDir |-> ndir,
    stepSize |-> DMul(Fin(ndir, 0), DAbs(ssize)),
    pathAccumulated |-> At(0),
    covTransport |-> par.hasCov,
    cov |-> Identity,
    covariance |-> Identity,
    jacTransport |-> Identity,
    jacToGlobal |-> Identity,
    jacobian |-> Identity,
    derivative |-> ZeroVec ]

\* the stepper State constructors for the track parameters par: the
\* EigenStepper and the StraightLineStepper keep p and q as handed in, the
\* AtlasStepper keeps q / p no closer to zero than QopFloor
ConstructState(variant, par, ndir, ssize) ==
  [ pos |-> par.pos,
    dir |-> [phi |-> par.phi, norm2 |-> R(1)],
    p |-> par.p,
    q |-> par.q,
    qop |-> IF variant = "Atlas"
              THEN ClampQop(DDiv(ChargeValue(par.q), par.p))
              ELSE DDiv(ChargeValue(par.q), par.p),
    t0 |-> par.time,
    dt |-> At(0),
    ready |-> TRUE,
    navDir |-> ndir,
    stepSize |-> DMul(Fin(ndir, 0), DAbs(ssize)),
    pathAccumulated |-> At(0),
    covTransport |-> par.hasCov,
    cov |-> IF variant = "Atlas" THEN <<0, 0, 0, 0>> ELSE par.cov,
    covariance |-> par.cov,
    jacTransport |-> Identity,
    jacToGlobal |-> Identity,
    jacobian |-> Identity,
    derivative |-> ZeroVec ]

\* the parameters the stepper of Spec starts from
StartParameters(withCov) ==
  [ hasCov |-> withCov,
    cov |-> IF withCov THEN <<2, 1, 1, 1>> ELSE <<0, 0, 0, 0>>,
    jacobian |-> Identity, pos |-> At(0), pathLength |-> At(0),
    phi |-> 0, p |-> One, q |-> 1, time |-> At(0) ]

InitStepping(ndir, ssize, withCov) ==
  ConstructState("Eigen", StartParameters(withCov), ndir, ssize)

Init ==
  /\ stepper \in Steppers
  /\ options \in OptionSets
  /\ \E ndir \in {1, -1}, ssize \in StepSizes, withCov \in BOOLEAN :
       /\ (stepper = "StraightLine" /\ withCov) => InLin(ssize)
       /\ stepping = ConstructState(stepper, StartParameters(withCov),
                                    ndir, ssize)
  /\ lastCall = NoCall
  /\ calls = 0
  /\ UpdaterIdle
  /\ FitIdle

CanCall == calls < MaxCalls /\ ~lastCall.hang

Apply(r) ==
  /\ stepping' = r.stepping
  /\ lastCall' = [r.call EXCEPT !.pre = stepping]
  /\ calls' = calls + 1
  /\ UNCHANGED <<stepper, options, updaterVars, fitVars>>

EigenStepperStep ==
  /\ CanCall
  /\ stepper \in AdaptiveEigen
  /\ \E env \in EigenEnvs : Apply(EigenStep(stepper, stepping, options, env))

StraightLineStepperStep ==
  /\ CanCall
  /\ stepper = "StraightLine"
  /\ Apply(StraightLineStep(stepping))

AtlasStepperStep ==
  /\ CanCall
  /\ stepper = "Atlas"
  /\ \E env \in AtlasEnvs : Apply(AtlasStep(stepping, env))

BoundStateCall ==
  /\ CanCall
  /\ stepper \in Steppers
  /\ \E normal \in Normals, reinitialize \in BOOLEAN :
       Apply(boundState(stepper, stepping, normal, reinitialize))

CurvilinearStateCall ==
  /\ CanCall
  /\ stepper \in Steppers
  /\ \E reinitialize \in BOOLEAN :
       Apply(curvilinearState(stepper, stepping, reinitialize))

UpdateCall ==
  /\ CanCall
  /\ stepper \in Steppers
  /\ \E pars \in UpdatePars : Apply(UpdateOf(stepper, stepping, pars))

UpdateFreeCall ==
  /\ CanCall
  /\ stepper \in Steppers
  /\ \E pars \in UpdatePars : Apply(UpdateFree(stepper, stepping, pars))

Next ==
  \/ EigenStepperStep
  \/ StraightLineStepperStep
  \/ AtlasStepperStep
  \/ BoundStateCall
  \/ CurvilinearStateCall
  \/ UpdateCall
  \/ UpdateFreeCall

Spec == Init /\ [][Next]_vars

\* the same calls on states constructed from charged and neutral track
\* parameters, with and without momentum, starting at time 0 or 1
TrackParameters ==
  { [StartParameters(FALSE) EXCEPT !.q = q, !.p = p, !.time = t] :
      q \in {-1, 0, 1}, p \in {Zero, One}, t \in {At(0), At(1)} }

ParamInit ==
  /\ stepper \in Steppers
  /\ options = [tolerance |-> Fin(1, -13), stepSizeCutOff |-> Zero,
                maxStepSize |-> One, direction |-> "forward"]
  /\ \E par \in TrackParameters :
       stepping = ConstructState(stepper, par, 1, One)
  /\ lastCall = NoCall
  /\ calls = 0
  /\ UpdaterIdle
  /\ FitIdle

ParamSpec == ParamInit /\ [][Next]_vars

\* ------------------------------------------------------------------------
\* The updater as a state machine
\* ------------------------------------------------------------------------

StepperIdle ==
  /\ stepper = "StraightLine"
  /\ options = [tolerance |-> Fin(1, -13), stepSizeCutOff |-> Zero,
                maxStepSize |-> One, direction |-> "forward"]
  /\ stepping = InitStepping(1, One, TRUE)
  /\ lastCall = NoCall
  /\ calls = 0

UpdaterInit ==
  /\ StepperIdle
  /\ \E x \in PredictedLocs, P \in PredictedCovariances,
        m \in MeasuredValues, V \in MeasurementVariances :
       trackState = NewTrackState(<<x, R(0)>>, P, m, V)
  /\ updated = "none"
  /\ FitIdle

\* m_updator(gctx, trackState)
UpdaterCall ==
  /\ updated = "none"
  /\ trackState' = GainMatrixUpdate(trackState).trackState
  /\ updated' = IF GainMatrixUpdate(trackState).result THEN "true"
                 ELSE "false"
  /\ UNCHANGED <<stepperVars, fitVars>>

UpdaterSpec == UpdaterInit /\ [][UpdaterCall]_vars

\* ------------------------------------------------------------------------
\* KalmanFitter::fit as a state machine: the propagation loop steps, lets
\* the navigator report the current surface and calls the actor
\* ------------------------------------------------------------------------

\* what the extension answers during a step of the fit
FitStepEnvs ==
  { [kn |-> Zero, ksum |-> Zero, failStage |-> f, failFrom |-> 1,
     D |-> <<1, 1, 0, 1>>, A2 |-> R(1)] : f \in {"none", "k1", "finalize"} }

\* the covariance of the filtered parameters the updater hands back
FilteredCov == <<1, 0, 0, 1>>

FitInit ==
  /\ stepper = "Eigen"
  /\ options = [tolerance |-> Fin(1, -13), stepSizeCutOff |-> Fin(1, -59),
                maxStepSize |-> One, direction |-> "forward"]
  /\ stepping = InitStepping(1, One, TRUE)
  /\ lastCall = NoCall
  /\ calls = 0
  /\ UpdaterIdle
  /\ fitPhase = "propagating"
  /\ inputMeasurements \in {{}, {"A"}, {"A", "B"}}
  /\ targetSurface \in {"T", "null"}
  /\ result = NewResult
  /\ navigation = [currentSurface |-> "none", navigationBreak |-> FALSE]
  /\ history = NewHistory
  /\ probe = [surface |-> "none", smoothedBefore |-> FALSE,
              before |-> [stepping |-> NoCall.pre, result |-> NewResult,
                          history |-> NewHistory],
              afterFilter |-> [stepping |-> NoCall.pre, result |-> NewResult,
                               history |-> NewHistory]]
  /\ propSteps = 0

\* the propagator state the actor works on, after a step left the stepper
\* state st and the navigator reported surface
PropagatorState(st, surface) ==
  [ stepping |-> st, result |-> result,
    navigation |-> [navigation EXCEPT !.currentSurface = surface],
    history |-> history, direction |-> options.direction,
    crashed |-> FALSE ]

Snapshot(ps) ==
  [stepping |-> ps.stepping, result |-> ps.result, history |-> ps.history]

\* Actor::operator(): update block, finalization block, post-finalization
ActorCall(ps, reached) ==
  \E af \in {FilterIfOnSurface(stepper, ps, inputMeasurements, FilteredCov)} :
  \E sorted \in SortedByPathLength(af.result.fittedStates) :
  \E fin \in {IF FinalizationDue(af, inputMeasurements)
                THEN finalize(af, sorted, options.maxStepSize) ELSE af} :
  \E post \in {PostFinalization(stepper, fin, reached)} :
    /\ stepping' = post.stepping
    /\ result' = post.result
    /\ navigation' = post.navigation
    /\ history' = post.history
    /\ options' = [options EXCEPT !.direction = post.direction]
    /\ fitPhase' = IF post.crashed THEN "crashed" ELSE "propagating"
    /\ probe' = [surface |-> ps.navigation.currentSurface,
                 smoothedBefore |-> ps.result.smoothed,
                 before |-> Snapshot(ps), afterFilter |-> Snapshot(af)]

Propagating ==
  /\ fitPhase = "propagating"
  /\ ~navigation.navigationBreak
  /\ propSteps < MaxPropSteps

\* a pass of the propagation loop whose step succeeded
PropagateStep ==
  /\ Propagating
  /\ \E env \in FitStepEnvs, surface \in FitSurfaces \cup {"none"},
        reached \in ReachedAnswers(targetSurface) :
       \E r \in {EigenStep(stepper, stepping, options, env)} :
         /\ r.call.ok
         /\ lastCall' = [r.call EXCEPT !.pre = stepping]
         /\ ActorCall(PropagatorState(r.stepping, surface), reached)
  /\ propSteps' = propSteps + 1
  /\ UNCHANGED <<stepper, calls, updaterVars, inputMeasurements,
                 targetSurface>>

\* a pass whose step failed: propagate returns the error, and fit takes
\* .value() of that Result
PropagateStepFails ==
  /\ Propagating
  /\ \E env \in FitStepEnvs :
       \E r \in {EigenStep(stepper, stepping, options, env)} :
         /\ ~r.call.ok
         /\ lastCall' = [r.call EXCEPT !.pre = stepping]
         /\ stepping' = r.stepping
         /\ fitPhase' = IF ResultValue(r.call.ok) = "throws" THEN "threw"
                        ELSE "returned"
  /\ propSteps' = propSteps + 1
  /\ UNCHANGED <<stepper, options, calls, updaterVars, inputMeasurements,
                 targetSurface, result, navigation, history, probe>>

\* the propagation ends (navigation break, path limit or abort condition)
\* and fit returns the converted result
PropagateReturns ==
  /\ fitPhase = "propagating"
  /\ fitPhase' = IF ResultValue(TRUE) = "value" THEN "returned" ELSE "threw"
  /\ UNCHANGED <<stepperVars, updaterVars, inputMeasurements, targetSurface,
                 result, navigation, history, probe, propSteps>>

FitNext ==
  \/ PropagateStep
  \/ PropagateStepFails
  \/ PropagateReturns

FitSpec == FitInit /\ [][FitNext]_vars

\* ------------------------------------------------------------------------
\* Properties of step
\* ------------------------------------------------------------------------

StepReturned == lastCall.op = "step" /\ ~lastCall.hang

\* the step changed neither the position nor the accumulated path
MovedNothing ==
  /\ ~lastCall.pre.pos.out
  /\ stepping.pos = lastCall.pre.pos
  /\ stepping.pathAccumulated = lastCall.pre.pathAccumulated

C2_StepTerminatesWithinAttempts ==
  lastCall.op = "step" =>
    /\ ~lastCall.hang
    /\ lastCall.attempts <= MaxStepAttempts
    /\ (lastCall.attempts = MaxStepAttempts /\ lastCall.ok) =>
         /\ stepping.stepSize = DMul(Fin(stepping.navDir, 0), OneMm)
         /\ lastCall.value = stepping.stepSize

\* the retries of the current EigenStepper were used up and the 1 mm step
\* was taken
C2_FallbackReached ==
  /\ lastCall.op = "step" /\ stepper = "Eigen" /\ lastCall.ok
  /\ lastCall.attempts = MaxStepAttempts
  /\ lastCall.value = DMul(Fin(stepping.navDir, 0), OneMm)

\* C3: for every stepper, step never returns a success value for a step
\* that moved nothing, that is with position and accumulated path unchanged
\* and a returned length of zero.
C3_NoSuccessWithoutMoving ==
  (StepReturned /\ lastCall.ok) => ~(MovedNothing /\ lastCall.value = Zero)

\* C4: when validExtensionForStep, one of k1..k4 or finalize fails during an
\* Eigen step, the call returns an error.
C4_ExtensionFailureReported ==
  (StepReturned /\ stepper \in AdaptiveEigen /\ lastCall.failed)
    => ~lastCall.ok

\* a failing finalize that was reported as StepInvalid
C4_FinalizeFailureReached ==
  /\ StepReturned /\ lastCall.failStage = "finalize" /\ lastCall.failed
  /\ lastCall.error = "StepInvalid"

\* ------------------------------------------------------------------------
\* Properties of the updater
\* ------------------------------------------------------------------------

\* H P H^T + V of the track state is not invertible, or V is singular
SingularUpdate ==
  \/ RAdd(trackState.predicted.cov[1], trackState.V) = R(0)
  \/ trackState.V = R(0)

FilteredIsFinite ==
  /\ \A i \in 1..2 : IsFinite(trackState.filtered.par[i])
  /\ \A i \in 1..4 : IsFinite(trackState.filtered.cov[i])
  /\ IsFinite(trackState.chi2)

\* C5: when the innovation covariance is not invertible or the measurement
\* covariance is singular, the updater signals an error (it does not return
\* success) and stores no NaN filtered state or chi2 in the track state.
C5_SingularUpdateSignalled ==
  (updated # "none" /\ SingularUpdate) =>
    /\ updated = "false"
    /\ (trackState.hasFiltered => FilteredIsFinite)

\* an update with invertible matrices that stored a finite filtered state
C5_RegularUpdateReached ==
  /\ updated = "true" /\ ~SingularUpdate
  /\ trackState.hasFiltered /\ FilteredIsFinite

\* ------------------------------------------------------------------------
\* Properties of the fit
\* ------------------------------------------------------------------------

FitEnded == fitPhase \notin {"off", "propagating"}

\* C6: when a step fails inside the propagation that fit drives, the caller
\* of fit receives an explicit error result ("error"): nothing is thrown,
\* nothing crashes and no fitted track is returned.
C6_PropagationFailureIsErrorResult ==
  (FitEnded /\ lastCall.op = "step" /\ ~lastCall.ok) => fitPhase = "error"

\* C7: within one fit the smoother is invoked once only, not before a
\* measurement update was attempted on every input measurement surface,
\* and no measurement update follows the smoother call.
C7_SmootherOnceAfterAllUpdates ==
  /\ history.smootherCalls <= 1
  /\ history.smootherCalls >= 1 =>
       inputMeasurements \subseteq history.updatedAtSmoothing
  /\ ~history.updateAfterSmoother

\* the smoother ran after both measurement surfaces were updated
C7_SmoothedAfterAllReached ==
  /\ history.smootherCalls = 1
  /\ inputMeasurements = {"A", "B"}
  /\ history.updatedAtSmoothing = {"A", "B"}

\* C8: when the forward pass ends with fewer than two filtered states, the
\* smoothing is a no-op and the result says so: it is not marked smoothed,
\* no state is smoothed and no fitted parameters are set.
C8_NoSmoothingBelowTwoStates ==
  (history.smootherCalls >= 1 /\ Len(history.smootherInput) < 2) =>
    /\ ~result.smoothed
    /\ ~result.hasFittedParameters
    /\ \A i \in 1..Len(result.fittedStates) : ~result.fittedStates[i].smoothed

\* the smoother ran on two states and the result is marked smoothed
C8_SmoothedTwoStates ==
  /\ history.smootherCalls = 1 /\ Len(history.smootherInput) = 2
  /\ history.smootherSucceeded /\ result.smoothed

\* the actor's filter ran on a sensitive surface without input measurement
OnHole ==
  /\ fitPhase # "off"
  /\ probe.surface \in Sensitive \ inputMeasurements
  /\ ~probe.smoothedBefore

BoundWithReset ==
  /\ stepper # "Atlas"
  /\ lastCall.op \in {"boundState", "curvilinearState"}
  /\ lastCall.reinitialize

\* the transport jacobian accumulated before the call
AccumulatedTransport ==
  IF stepper = "EigenLegacy"
    THEN MatMul(lastCall.pre.jacTransport, lastCall.pre.jacToGlobal)
    ELSE lastCall.pre.jacTransport

\* C10: boundState and curvilinearState with reinitialize = true fold the
\* transport jacobian accumulated so far into the covariance and reset it
\* afterwards: the covariance is jacFull * cov * jacFull^T for the jacFull of
\* the accumulated jacobian, and jacTransport is the identity after the call.
C10_FoldThenReset ==
  BoundWithReset =>
    /\ stepping.jacTransport = Identity
    /\ stepping.covTransport =>
         stepping.cov =
           Sandwich(FullJacobian(AccumulatedTransport,
                                 lastCall.pre.derivative, lastCall.normal),
                    lastCall.pre.cov)

\* a state was bound after a step had accumulated a transport jacobian
C10_FoldReached ==
  /\ BoundWithReset
  /\ stepping.covTransport
  /\ lastCall.pre.jacTransport # Identity
  /\ stepping.cov # lastCall.pre.cov
  /\ stepping.jacTransport = Identity

\* the last call left the identity in a transport jacobian that was not
\* the identity before
TransportReset ==
  /\ stepper # "Atlas"
  /\ lastCall.op # "none"
  /\ lastCall.pre.jacTransport # Identity
  /\ stepping.jacTransport = Identity

\* C11: in the EigenStepper, the older EigenStepper and the
\* StraightLineStepper the running transport jacobian is reset to the identity
\* only by a bind with reinitialize = true that has folded it into the
\* covariance; step (which only multiplies it from the left), update and the
\* free update never reset it, and update leaves it as it was.
C11_ResetOnlyAfterFold ==
  /\ TransportReset =>
       /\ BoundWithReset
       /\ lastCall.pre.covTransport
       /\ stepping.cov =
            Sandwich(FullJacobian(AccumulatedTransport,
                                  lastCall.pre.derivative, lastCall.normal),
                     lastCall.pre.cov)
  /\ (stepper # "Atlas" /\ lastCall.op \in {"update", "updateFree"}) =>
       stepping.jacTransport = lastCall.pre.jacTransport

\* an update was made on a state whose transport jacobian had accumulated
\* a step, and the jacobian is still there
C11_UpdateKeptTransport ==
  /\ stepper # "Atlas"
  /\ lastCall.op = "update"
  /\ lastCall.pre.jacTransport # Identity
  /\ stepping.jacTransport = lastCall.pre.jacTransport
  /\ stepping.pos # lastCall.pre.pos

\* C12: boundState and curvilinearState have the same effect on the transport
\* jacobian in every stepper (EigenStepper, its older version,
\* StraightLineStepper, AtlasStepper): with reinitialize = false the
\* accumulated jacobian is kept, with reinitialize = true it is the identity
\* after the call.
C12_SameBindContract ==
  (lastCall.op \in {"boundState", "curvilinearState"}
     /\ lastCall.pre.covTransport) =>
    IF lastCall.reinitialize
      THEN stepping.jacTransport = Identity
      ELSE stepping.jacTransport = lastCall.pre.jacTransport

\* a StraightLineStepper state was bound with reinitialize = false after a
\* step and kept its transport jacobian
C12_KeptReached ==
  /\ stepper = "StraightLine"
  /\ lastCall.op \in {"boundState", "curvilinearState"}
  /\ ~lastCall.reinitialize
  /\ lastCall.pre.covTransport
  /\ lastCall.pre.jacTransport # Identity
  /\ stepping.jacTransport = lastCall.pre.jacTransport

\* ------------------------------------------------------------------------
\* Properties of update and of the parameters a state holds
\* ------------------------------------------------------------------------

\* C13: after update(state, pars) and after update(state, pos, dir, p, t)
\* the accessors position, direction, momentum and time return the values
\* handed in, in every stepper (the older EigenStepper keeps no time).
C13_UpdateSetsAccessors ==
  lastCall.op \in {"update", "updateFree"} =>
    /\ position(stepping) = lastCall.bound.pos
    /\ direction(stepping) = lastCall.bound.phi
    /\ momentum(stepper, stepping) = lastCall.bound.p
    /\ stepper # "EigenLegacy" => time(stepping) = lastCall.bound.time

\* an update of a StraightLineStepper state that started at time 0 changed
\* position, direction, momentum and time to the values handed in
C13_UpdateObserved ==
  /\ stepper = "StraightLine"
  /\ lastCall.op = "update"
  /\ lastCall.pre.t0 = At(0)
  /\ position(stepping) = lastCall.bound.pos
  /\ position(stepping) # lastCall.pre.pos
  /\ direction(stepping) = lastCall.bound.phi
  /\ direction(stepping) # lastCall.pre.dir.phi
  /\ momentum(stepper, stepping) = lastCall.bound.p
  /\ momentum(stepper, stepping) # lastCall.pre.p
  /\ time(stepping) = lastCall.bound.time
  /\ time(stepping) # At(0)

\* ------------------------------------------------------------------------
\* Properties of the gain matrix update
\* ------------------------------------------------------------------------

\* C14: with H = (1 0) and an invertible S = H P H^T + V the updater stores
\* filtered mean = predicted mean + K * residual and filtered covariance
\* = (I - K H) P for K = P H^T S^-1, and leaves the predicted state and the
\* measurement as they were. Multiplied by S: filtered[i] * S =
\* predicted[i] * S + (P H^T)[i] * (m - predicted[1]) and
\* filteredCov[i][j] * S = P[i][j] * S - (P H^T)[i] * (H P)[j].
C14_GainMatrixUpdate ==
  [][ (updated = "none" /\ updated' # "none"
         /\ RAdd(trackState.predicted.cov[1], trackState.V) # R(0)) =>
      LET P == trackState.predicted.cov
          x == trackState.predicted.par
          S == RAdd(trackState.predicted.cov[1], trackState.V)
          f == trackState'.filtered
      IN /\ trackState'.predicted = trackState.predicted
         /\ trackState'.m = trackState.m
         /\ trackState'.V = trackState.V
         /\ trackState'.hasFiltered
         /\ RMul(f.par[1], S)
              = RAdd(RMul(x[1], S), RMul(P[1], RSub(trackState.m, x[1])))
         /\ RMul(f.par[2], S)
              = RAdd(RMul(x[2], S), RMul(P[3], RSub(trackState.m, x[1])))
         /\ RMul(f.cov[1], S) = RSub(RMul(P[1], S), RMul(P[1], P[1]))
         /\ RMul(f.cov[2], S) = RSub(RMul(P[2], S), RMul(P[1], P[2]))
         /\ RMul(f.cov[3], S) = RSub(RMul(P[3], S), RMul(P[3], P[1]))
         /\ RMul(f.cov[4], S) = RSub(RMul(P[4], S), RMul(P[3], P[2]))
    ]_vars

\* an update with an invertible S, a correlated prediction and a residual
\* moved both parameters and shrank the covariance
C14_FilteredStored ==
  /\ updated = "true"
  /\ RAdd(trackState.predicted.cov[1], trackState.V) # R(0)
  /\ trackState.V # R(0)
  /\ trackState.filtered.par[1] # trackState.predicted.par[1]
  /\ trackState.filtered.par[2] # trackState.predicted.par[2]
  /\ trackState.filtered.cov # trackState.predicted.cov

\* C15: the stored chi2 is r^T R^-1 r for the residual r = m - H filtered of
\* the filtered state and R = (I - H K) V. With K = P H^T S^-1 this R is
\* V * V / S, so for invertible S and V: chi2 * V * V = r * r * S.
C15_Chi2OfFilteredResidual ==
  (updated # "none"
     /\ RAdd(trackState.predicted.cov[1], trackState.V) # R(0)
     /\ trackState.V # R(0)) =>
    RMul(trackState.chi2, RMul(trackState.V, trackState.V))
      = RMul(RMul(RSub(trackState.m, trackState.filtered.par[1]),
                  RSub(trackState.m, trackState.filtered.par[1])),
             RAdd(trackState.predicted.cov[1], trackState.V))

\* a chi2 above zero was stored by an update whose gain is not zero
C15_Chi2Stored ==
  /\ updated = "true"
  /\ trackState.V # R(0)
  /\ trackState.predicted.cov[1] # R(0)
  /\ trackState.filtered.par[1] # trackState.m
  /\ trackState.chi2 # R(0)
  /\ IsFinite(trackState.chi2)

\* ------------------------------------------------------------------------
\* Properties of what a step leaves in the state
\* ------------------------------------------------------------------------

\* C16: in every stepper a step that returns the value h has added h to
\* pathAccumulated (with the rounding of the double addition), a step that
\* returns an error has left pathAccumulated as it was, and no other call
\* changes it; so pathAccumulated is the sum of the values returned by steps.
C16_PathLengthAccumulates ==
  /\ (lastCall.op = "step" /\ lastCall.ok) =>
       stepping.pathAccumulated
         = LinAdd(lastCall.pre.pathAccumulated, lastCall.value)
  /\ (lastCall.op = "step" /\ ~lastCall.ok) =>
       stepping.pathAccumulated = lastCall.pre.pathAccumulated
  /\ lastCall.op \notin {"none", "step"} =>
       stepping.pathAccumulated = lastCall.pre.pathAccumulated

\* a second step returned a value that moved the path length further
C16_PathLengthMoved ==
  /\ lastCall.op = "step"
  /\ lastCall.ok
  /\ lastCall.value # Zero
  /\ ~stepping.pathAccumulated.out
  /\ lastCall.pre.pathAccumulated # At(0)
  /\ stepping.pathAccumulated # lastCall.pre.pathAccumulated

\* the last call is a step that was accepted and advanced the state
AcceptedStep ==
  /\ lastCall.op = "step"
  /\ lastCall.ok
  /\ lastCall.exit \in {"accepted", "unscaled", "fallback"}

C18_RetriesShrink ==
  (lastCall.op = "step" /\ stepper \in AdaptiveEigen) => ~lastCall.unshrunk

\* a step was accepted after retries that all shrank the step size
C18_ShrunkAndAccepted ==
  /\ lastCall.op = "step"
  /\ stepper \in AdaptiveEigen
  /\ lastCall.attempts > 0
  /\ lastCall.exit = "accepted"
  /\ ~lastCall.unshrunk
  /\ DLess(DAbs(stepping.stepSize), DAbs(lastCall.pre.stepSize))

\* C19: no stepper state holds a charge over momentum or a momentum that is
\* zero or below the floor of 1e-15 in magnitude: the AtlasStepper state
\* keeps |pVector[7]| at the floor or above, the states of the other
\* steppers keep p there.
C19_MomentumFloor ==
  IF stepper = "Atlas"
    THEN DLeq(QopFloor, DAbs(stepping.qop))
    ELSE DLeq(QopFloor, stepping.p)

\* an AtlasStepper state was constructed from neutral track parameters and
\* holds the floor as its charge over momentum
C19_ClampedAtConstruction ==
  /\ stepper = "Atlas"
  /\ lastCall.op = "none"
  /\ stepping.q = 0
  /\ stepping.p = One
  /\ stepping.qop = QopFloor

\* ------------------------------------------------------------------------
\* Properties of the step size
\* ------------------------------------------------------------------------

\* C20: the step size of the stepper state never has the sign opposite to
\* the state's navigation direction navDir, also not after the fitter has
\* reversed the propagation at the end of the forward pass.
C20_StepSizeFollowsNavDir ==
  /\ ~(DLess(stepping.stepSize, Zero) /\ stepping.navDir = 1)
  /\ ~(DLess(Zero, stepping.stepSize) /\ stepping.navDir = -1)

\* a step of the forward pass of a fit left a step size along navDir
C20_ForwardStepTaken ==
  /\ fitPhase = "propagating"
  /\ lastCall.op = "step"
  /\ lastCall.ok
  /\ ~result.smoothed
  /\ stepping.navDir = 1
  /\ DLess(Zero, stepping.stepSize)


\* C21: the smoother receives every track state of the forward pass, in an
\* order of non-decreasing path length, whatever the set of source links and
\* the order in which the measurement surfaces were reached.
C21_SmootherInputSorted ==
  history.smootherCalls > 0 =>
    /\ \A i, j \in 1..Len(history.smootherInput) :
         i < j => history.smootherInput[i].pathLength
                    <= history.smootherInput[j].pathLength
    /\ Len(history.smootherInput) = Len(history.updates)
    /\ Len(history.smootherInput) = Len(result.fittedStates)
    /\ \A i \in 1..Len(result.fittedStates) :
         [result.fittedStates[i] EXCEPT !.smoothed = FALSE]
           \in Range(history.smootherInput)

\* the smoother ran on two track states whose surfaces were reached as B
\* first and A second
C21_SmoothedTwoStates ==
  /\ history.smootherCalls > 0
  /\ history.updates = <<"B", "A">>
  /\ Len(history.smootherInput) = 2
  /\ history.smootherInput[1].pathLength < history.smootherInput[2].pathLength

C28_CountsDistinctSurfaces ==
  /\ result.processedStates <= Cardinality(inputMeasurements)
  /\ \A i, j \in 1..Len(history.updates) :
       i # j => history.updates[i] # history.updates[j]
  /\ result.processedStates = Cardinality(Range(history.updates))

\* the surface A was reached and filtered twice, the counter stands at the
\* number of input measurements and the smoother ran without B
C28_RevisitCounted ==
  /\ inputMeasurements = {"A", "B"}
  /\ history.updates = <<"A", "A">>
  /\ result.processedStates = 2
  /\ result.smoothed
  /\ Len(result.fittedStates) = 2

C29_AppliedStepWasTried ==
  (lastCall.op = "step" /\ stepper \in {"Eigen", "EigenLegacy"}
     /\ lastCall.ok /\ lastCall.tries > 0) =>
    /\ lastCall.rkH = lastCall.value
    /\ lastCall.exit = "accepted"

\* no stage failed, every trial exceeded the tolerance, and after the last
\* retry the step of navDir * 1 mm was applied with the stages of a trial of
\* another step size
C29_FallbackWithStaleStages ==
  /\ lastCall.op = "step" /\ stepper = "Eigen"
  /\ lastCall.ok /\ ~lastCall.failed
  /\ lastCall.exit = "fallback"
  /\ lastCall.rkH # lastCall.value
  /\ lastCall.value = DMul(Fin(stepping.navDir, 0), OneMm)
  /\ stepping.pos # lastCall.pre.pos

\* C23: the covariance of the stepper state and the filtered covariance of
\* the track state are symmetric and positive semi-definite (non-negative
\* diagonal and determinant) after every transport and measurement update.
C23_CovarianceSymmetricPSD ==
  /\ stepping.cov[2] = stepping.cov[3]
  /\ stepping.cov[1] >= 0 /\ stepping.cov[4] >= 0
  /\ stepping.cov[1] * stepping.cov[4] >= stepping.cov[2] * stepping.cov[3]
  /\ trackState.hasFiltered =>
       /\ \A i \in 1..4 : IsFinite(trackState.filtered.cov[i])
       /\ trackState.filtered.cov[2] = trackState.filtered.cov[3]
       /\ trackState.filtered.cov[1].n >= 0
       /\ trackState.filtered.cov[4].n >= 0
       /\ RSub(RMul(trackState.filtered.cov[1], trackState.filtered.cov[4]),
               RMul(trackState.filtered.cov[2],
                    trackState.filtered.cov[3])).n >= 0

\* an update of a prediction and a measurement that both have variance 0
\* stored a filtered covariance that is not a number
C23_NaNCovarianceStored ==
  /\ updated = "true" /\ trackState.hasFiltered
  /\ trackState.predicted.cov[1] = R(0) /\ trackState.V = R(0)
  /\ trackState.predicted.cov[2] = trackState.predicted.cov[3]
  /\ trackState.filtered.cov[1] = RNaN

\* ------------------------------------------------------------------------
\* Propagator::propagate on a stepper: steps in a constant field, then the
\* bound state at the end of the path (curvilinear) or at the target surface
\* ------------------------------------------------------------------------

\* stepper.step of the propagator's stepper in the field env
StepOf(variant, st, opt, env) ==
  IF variant = "StraightLine" THEN StraightLineStep(st).stepping
  ELSE IF variant = "Atlas" THEN AtlasStep(st, env).stepping
  ELSE EigenStep(variant, st, opt, env).stepping

\* the end parameters of a propagation of n steps (n is 1 or 2) from the
\* parameters par: to the surface of normal "normal", or curvilinear at the
\* path limit when toSurface is false
Propagate(variant, par, ndir, opt, env, n, toSurface, normal) ==
  LET st == ConstructState(variant, par, ndir, opt.maxStepSize)
      s1 == StepOf(variant, st, opt, env)
      s2 == IF n = 1 THEN s1 ELSE StepOf(variant, s1, opt, env)
  IN  IF toSurface THEN boundState(variant, s2, normal, TRUE).call.bound
      ELSE curvilinearState(variant, s2, TRUE).call.bound

\* the start parameters carry one of three covariances
AdditiveInit ==
  /\ stepper \in {"Eigen", "EigenLegacy", "StraightLine"}
  /\ options = [tolerance |-> Fin(1, -13), stepSizeCutOff |-> Fin(1, -59),
                maxStepSize |-> One, direction |-> "forward"]
  /\ \E ndir \in {1, -1},
        cov \in {<<2, 1, 1, 1>>, <<1, 0, 0, 1>>, <<1, 1, 1, 2>>} :
       stepping = ConstructState(stepper,
                                 [StartParameters(TRUE) EXCEPT !.cov = cov],
                                 ndir, options.maxStepSize)
  /\ lastCall = NoCall
  /\ calls = 0
  /\ UpdaterIdle
  /\ FitIdle

\* the two test cases in a constant field (none, or one that turns the
\* direction in every step): one propagation over two steps, and a
\* propagation over one step whose end parameters start a second one
PropagateOnceAndTwice ==
  /\ calls = 0
  /\ \E D \in {<<1, 1, 0, 1>>, <<1, 1, 1, 1>>}, toSurface \in BOOLEAN,
        normal \in Normals :
       \E env \in {[kn |-> Zero, ksum |-> Zero, failStage |-> "none",
                     failFrom |-> 1, D |-> D,
                     A2 |-> IF D[3] = 0 THEN R(1) ELSE Frac(49, 64)]} :
       \E par \in {[StartParameters(TRUE) EXCEPT !.cov = stepping.cov]} :
       \E mid \in {Propagate(stepper, par, stepping.navDir, options, env, 1,
                              toSurface, normal)} :
         probe' = [ oneGo |-> Propagate(stepper, par, stepping.navDir, options,
                                        env, 2, toSurface, normal),
                    mid |-> mid,
                    twoGo |-> Propagate(stepper, mid, stepping.navDir, options,
                                        env, 1, toSurface, normal),
                    toSurface |-> toSurface, normal |-> normal ]
  /\ calls' = 1
  /\ UNCHANGED <<stepper, stepping, options, lastCall, updaterVars, fitPhase,
                 inputMeasurements, targetSurface, result, navigation,
                 history, propSteps>>

AdditiveSpec == AdditiveInit /\ [][PropagateOnceAndTwice]_vars

NotNegative(x) == (x.k = "i" /\ x.n > 0) \/ (x.k = "f" /\ x.n >= 0)

\* the lambda solve of DiscSurface::intersectionEstimate, called with a
\* direction of ldir.dot(pnormal) = denom and pnormal.dot(pcenter - lpos) =
\* num while path and solution hold what s holds
DiscSolve(navDir, num, denom, s) ==
  LET path == IF denom # 0 THEN RMul(R(num), RInv(R(denom))) ELSE s.path
  IN  [ path |-> path,
        solution |-> IF denom # 0 THEN "computed" ELSE s.solution,
        valid |-> navDir = 0 \/ NotNegative(RMul(path, R(navDir))) ]

\* DiscSurface::intersectionEstimate for the query q: the corrector is
\* absent ("none"), declines, or corrects the direction to one of
\* ldir.dot(pnormal) = q.denomc; q.onSurface is the answer of isOnSurface
DiscIntersectionEstimate(q) ==
  LET first == DiscSolve(q.navDir, q.num, q.denom,
                         [path |-> RInf(1), solution |-> "origin"])
      last  == IF q.corr = "corrects"
                 THEN DiscSolve(q.navDir, q.num, q.denomc, first)
                 ELSE first
  IN  [ solution |-> last.solution, path |-> last.path,
        valid |-> IF q.bcheck THEN last.valid /\ q.onSurface
                  ELSE last.valid ]

\* LineSurface::intersectionEstimate for the query q: denom = 1 - eaTeb^2
\* is 0 when it is within s_onSurfaceTolerance, and num is the numerator of
\* u; the false intersection carries gpos and the largest double
LineIntersectionEstimate(q) ==
  IF q.denom # 0
    THEN LET u == RMul(R(q.num), RInv(R(q.denom)))
             valid == NotNegative(RMul(R(q.navDir), u))
             again == q.corr = "corrects"
             uc == IF again /\ q.denomc # 0
                     THEN RMul(R(q.num), RInv(R(q.denomc))) ELSE u
             validc == IF ~again THEN valid
                       ELSE IF q.denomc # 0
                         THEN NotNegative(RMul(R(q.navDir), uc))
                       ELSE FALSE
         IN  [ solution |-> "computed", path |-> uc,
               valid |-> IF q.bcheck THEN validc /\ q.onSurface ELSE validc ]
    ELSE [ solution |-> "gpos", path |-> RInf(1), valid |-> FALSE ]

\* one intersection query on one surface
IntersectionEstimateCall ==
  /\ calls = 0
  /\ \E surface \in {"Disc", "Line"}, navDir \in {-1, 0, 1},
        bcheck \in BOOLEAN, onSurface \in BOOLEAN, num \in {-1, 1},
        denom \in {0, 1}, corr \in {"none", "declines", "corrects"},
        denomc \in {0, 1} :
       \E q \in {[surface |-> surface, navDir |-> navDir, bcheck |-> bcheck,
                   onSurface |-> onSurface, num |-> num, denom |-> denom,
                   corr |-> corr, denomc |-> denomc]} :
         probe' = [ query |-> q,
                    found |-> IF surface = "Disc"
                                THEN DiscIntersectionEstimate(q)
                                ELSE LineIntersectionEstimate(q) ]
  /\ calls' = 1
  /\ UNCHANGED <<stepper, stepping, options, lastCall, updaterVars, fitPhase,
                 inputMeasurements, targetSurface, result, navigation,
                 history, propSteps>>

\* no stepper call, no update and no fit has been made
IdleInit == StepperIdle /\ UpdaterIdle /\ FitIdle

IntersectionSpec == IdleInit /\ [][IntersectionEstimateCall]_vars

\* C24: an intersection query whose direction is parallel to the surface
\* (the disc's plane, the line) returns an intersection that is not valid,
\* for every navigation direction and boundary check; and a valid
\* intersection never carries a placeholder solution.
C24_ParallelIsNotValid ==
  calls = 1 =>
    /\ (IF probe.query.corr = "corrects" THEN probe.query.denomc
         ELSE probe.query.denom) = 0 => ~probe.found.valid
    /\ probe.found.valid => probe.found.solution = "computed"

\* a disc queried forward along its plane, without boundary check and
\* without corrector, answered with a valid intersection at the origin and
\* an infinite path
C24_ParallelDiscValid ==
  /\ calls = 1
  /\ probe.query.surface = "Disc" /\ probe.query.denom = 0
  /\ probe.query.corr = "none" /\ probe.query.navDir = 1
  /\ ~probe.query.bcheck
  /\ probe.found.valid
  /\ probe.found.solution = "origin" /\ probe.found.path = RInf(1)

\* ------------------------------------------------------------------------
\* Two propagations at the same time on one stepper object: each thread has
\* its own stepper state with its own field cache; the stepper object and
\* its field are shared
\* ------------------------------------------------------------------------

\* a getField that keeps the field cell in the shared field object: the
\* first lookup stores its cell there and every later lookup reads it
GetFieldOfSharedCell(variant, cache, obj) ==
  LET cell == IF obj.cell = "none" THEN cache ELSE obj.cell
  IN  [ field |-> IF variant = "Atlas"
                    THEN [fg |-> IF cell = "curved" THEN Fin(1, -14) ELSE Zero,
                          D |-> IF cell = "curved" THEN <<1, 1, 1, 1>>
                                ELSE <<1, 1, 0, 1>>,
                          A2 |-> IF cell = "curved" THEN Frac(63, 8) ELSE R(9)]
                    ELSE [kn |-> Zero, ksum |-> Zero, failStage |-> "none",
                          failFrom |-> 1,
                          D |-> IF cell = "curved" THEN <<1, 1, 1, 1>>
                                ELSE <<1, 1, 0, 1>>,
                          A2 |-> IF cell = "curved" THEN Frac(49, 64)
                                 ELSE R(1)],
        obj |-> [obj EXCEPT !.cell = cell] ]

\* getField(state, pos): m_bField.getField(pos, state.fieldCache); the
\* field is the one of the cell the state's own cache holds, and the shared
\* object obj is not written
getField(variant, cache, obj) ==
  [ field |-> IF variant = "Atlas"
                THEN [fg |-> IF cache = "curved" THEN Fin(1, -14) ELSE Zero,
                      D |-> IF cache = "curved" THEN <<1, 1, 1, 1>>
                            ELSE <<1, 1, 0, 1>>,
                      A2 |-> IF cache = "curved" THEN Frac(63, 8) ELSE R(9)]
                ELSE [kn |-> Zero, ksum |-> Zero, failStage |-> "none",
                      failFrom |-> 1,
                      D |-> IF cache = "curved" THEN <<1, 1, 1, 1>>
                            ELSE <<1, 1, 0, 1>>,
                      A2 |-> IF cache = "curved" THEN Frac(49, 64) ELSE R(1)],
    obj |-> obj ]

\* the next call of the propagation of thread th: two steps, then the
\* curvilinear state at the end
ThreadCall(variant, opt, th, obj) ==
  IF th.n < 2
    THEN LET g == getField(variant, th.fieldCache, obj)
         IN  [ th |-> [th EXCEPT
                         !.stepping = StepOf(variant, th.stepping, opt,
                                             g.field),
                         !.n = th.n + 1],
               obj |-> g.obj ]
    ELSE LET b == curvilinearState(variant, th.stepping, TRUE)
         IN  [ th |-> [th EXCEPT !.stepping = b.stepping,
                                 !.bound = b.call.bound, !.n = th.n + 1],
               obj |-> obj ]

\* the thread th0 after n calls made with nothing else running
RunAlone(variant, opt, th0, obj, n) ==
  LET c1 == ThreadCall(variant, opt, th0, obj)
      c2 == ThreadCall(variant, opt, c1.th, c1.obj)
      c3 == ThreadCall(variant, opt, c2.th, c2.obj)
  IN  IF n = 0 THEN th0
      ELSE IF n = 1 THEN c1.th
      ELSE IF n = 2 THEN c2.th
      ELSE c3.th

ConcurrentInit ==
  /\ stepper \in Steppers
  /\ options = [tolerance |-> Fin(1, -13), stepSizeCutOff |-> Fin(1, -59),
                maxStepSize |-> One, direction |-> "forward"]
  /\ stepping = InitStepping(1, One, TRUE)
  /\ lastCall = NoCall
  /\ calls = 0
  /\ UpdaterIdle
  /\ fitPhase = "off"
  /\ inputMeasurements = {}
  /\ targetSurface = "null"
  /\ result = NewResult
  /\ navigation = [currentSurface |-> "none", navigationBreak |-> FALSE]
  /\ history = NewHistory
  /\ propSteps = 0
  /\ \E start \in [{1, 2} -> {1, -1} \X {"straight", "curved"}] :
       \E th \in {[t \in {1, 2} |->
                     [ stepping |->
                         ConstructState(stepper, StartParameters(TRUE),
                                        start[t][1], options.maxStepSize),
                       fieldCache |-> start[t][2], n |-> 0,
                       bound |-> NoCall.bound ]]} :
         probe = [start |-> th, thread |-> th, object |-> [cell |-> "none"]]

\* one of the two threads, each with its own stepper state and field cache,
\* makes its next call
ThreadAdvances ==
  /\ \E t \in {1, 2} :
       /\ probe.thread[t].n < 3
       /\ \E c \in {ThreadCall(stepper, options, probe.thread[t],
                                probe.object)} :
            probe' = [probe EXCEPT !.thread[t] = c.th, !.object = c.obj]
  /\ UNCHANGED <<stepperVars, updaterVars, fitPhase, inputMeasurements,
                 targetSurface, result, navigation, history, propSteps>>

ConcurrentSpec == ConcurrentInit /\ [][ThreadAdvances]_vars

RECURSIVE removeAllTracks(_, _)
removeAllTracks(perigeesToFit, seedTracks) ==
  IF perigeesToFit = <<>> THEN [seedTracks |-> seedTracks, hang |-> FALSE]
  ELSE IF seedTracks = <<>>
    THEN removeAllTracks(Tail(perigeesToFit), seedTracks)
  ELSE IF Head(seedTracks) = Head(perigeesToFit)
    THEN removeAllTracks(Tail(perigeesToFit), Tail(seedTracks))
  ELSE [seedTracks |-> seedTracks, hang |-> TRUE]

\* the tracks of seq that are in the set keep, in the order of seq
Keep(seq, keep) == SelectSeq(seq, LAMBDA t : t \in keep)

VertexInit ==
  /\ StepperIdle
  /\ UpdaterIdle
  /\ fitPhase = "off"
  /\ inputMeasurements = {}
  /\ targetSurface = "null"
  /\ result = NewResult
  /\ navigation = [currentSurface |-> "none", navigationBreak |-> FALSE]
  /\ history = NewHistory
  /\ propSteps = 0
  /\ \E trackVector \in {<<>>, <<1>>, <<1, 2>>, <<1, 2, 3, 4>>,
                           <<1, 2, 3, 4, 5>>},
        maxVertices \in {0, 1, 2, 3}, useBeamConstraint \in BOOLEAN :
       probe = [ seedTracks |-> trackVector, vertexCollection |-> 0,
                 nInterations |-> 0, maxVertices |-> maxVertices,
                 useBeamConstraint |-> useBeamConstraint,
                 perigeesToFit |-> <<>>, phase |-> "running" ]

\* one pass of the while loop of find: the seed is found or not; the
\* perigees to fit are all seed tracks when there are at most four, and the
\* ones compatible with the seed otherwise; the fit, when made, succeeds or
\* fails; a vertex that is not good has its tracks removed by
\* removeAllTracks, a good one by removeUsedCompatibleTracks, which erases
\* some of the fitted tracks from the seed tracks
FindIteration ==
  /\ probe.phase = "running"
  /\ Len(probe.seedTracks) > 1
  /\ probe.nInterations < probe.maxVertices
  /\ \E seedOk \in BOOLEAN, fitOk \in BOOLEAN, good \in BOOLEAN,
        compatible \in SUBSET Range(probe.seedTracks),
        used \in SUBSET Range(probe.seedTracks) :
       \E fit \in {IF Len(probe.seedTracks) <= 4 THEN probe.seedTracks
                    ELSE Keep(probe.seedTracks, compatible)} :
         /\ Len(probe.seedTracks) <= 4 => compatible = {}
         /\ used \subseteq Range(fit)
         /\ (~good \/ ~seedOk \/ ~fitOk) => used = {}
         /\ good => Len(fit) >= 2
         /\ probe' =
              IF ~seedOk THEN [probe EXCEPT !.phase = "error"]
              ELSE IF ~fitOk /\ ((probe.useBeamConstraint /\ fit # <<>>)
                                  \/ (~probe.useBeamConstraint
                                        /\ Len(fit) > 1))
                THEN [probe EXCEPT !.perigeesToFit = fit, !.phase = "error"]
              ELSE IF ~good
                THEN [probe EXCEPT
                        !.perigeesToFit = fit,
                        !.seedTracks =
                           removeAllTracks(fit, probe.seedTracks).seedTracks,
                        !.phase =
                           IF removeAllTracks(fit, probe.seedTracks).hang
                             THEN "hang" ELSE @,
                        !.nInterations =
                           IF removeAllTracks(fit, probe.seedTracks).hang
                             THEN @ ELSE @ + 1]
              ELSE [probe EXCEPT
                      !.perigeesToFit = fit,
                      !.seedTracks =
                         Keep(probe.seedTracks,
                              Range(probe.seedTracks) \ used),
                      !.vertexCollection = @ + 1,
                      !.nInterations = @ + 1]
  /\ UNCHANGED <<stepperVars, updaterVars, fitPhase, inputMeasurements,
                 targetSurface, result, navigation, history, propSteps>>

\* the while condition is false: find returns the vertex collection
FindReturns ==
  /\ probe.phase = "running"
  /\ ~(Len(probe.seedTracks) > 1 /\ probe.nInterations < probe.maxVertices)
  /\ probe' = [probe EXCEPT !.phase = "returned"]
  /\ UNCHANGED <<stepperVars, updaterVars, fitPhase, inputMeasurements,
                 targetSurface, result, navigation, history, propSteps>>

VertexSpec == VertexInit /\ [][FindIteration \/ FindReturns]_vars

\* C30: find never gets stuck: the main loop makes at most maxVertices
\* passes, and removeAllTracks ends whichever seed track the fitted track
\* is.
C30_FindTerminates ==
  /\ probe.phase # "hang"
  /\ probe.nInterations <= probe.maxVertices

\* removeAllTracks was called with a first fitted track that is not the
\* first seed track, and its inner loop does not end
C30_RemoveAllTracksHangs ==
  /\ probe.phase = "hang"
  /\ Len(probe.seedTracks) = 5
  /\ probe.perigeesToFit # <<>>
  /\ Head(probe.perigeesToFit) # Head(probe.seedTracks)
  /\ Head(probe.perigeesToFit) \in Range(probe.seedTracks)
====
